---- MODULE Spec2Model ----
(***************************************************************************)
(* The fixture dispatcher of the OceanBase multi-model demo:               *)
(* use_mcp_tool of mcp_tools.py, together with the callers that hold the   *)
(* envelopes it returns.                                                   *)
(*                                                                         *)
(* A text is a sequence of one-character strings, so that str.lower,       *)
(* str.startswith and the substring test `in` are computed character by    *)
(* character, as Python computes them.                                     *)
(***************************************************************************)
EXTENDS Integers, Sequences, FiniteSets, TLC

VARIABLES
    call,     \* the arguments of the latest call of use_mcp_tool, or NoCall
    ret,      \* the heap address of the dict that call returned, 0 when none is held
    heap,     \* address -> dict object, for the envelopes callers still hold
    stdout,   \* the number of lines use_mcp_tool wrote to the output stream so far
    snap,     \* the value of the latest envelope at the moment it was returned
    first,    \* the first call observed: its arguments, address and returned value
    threads,  \* concurrent callers: caller -> its position in use_mcp_tool and its call
    locals,   \* the variables of the running calls of use_mcp_tool: slot -> value
    pc,       \* the position of the running script, "none" when no script runs
    argv,     \* the command line of the running script
    installed,      \* whether `from mcp_tools import use_mcp_tool` succeeds
    mcp_available,  \* the local mcp_available of run_all_demos
    steps,    \* the checks and child scripts of the current command, in order
    printed,  \* the messages the script printed during the current command
    failed,   \* whether a failure was signalled since the script began
    exit_code,      \* the value the script passed to sys.exit, once pc = "exit"
    asked,    \* the number of menu inputs read
    results,  \* the records given to format_results
    query_type,     \* the query type given to format_results
    output,   \* the value format_results returned
    loop,     \* the position of MCPDemo.run in its while loop, "none" when it does not run
    choices,  \* the values display_menu returned so far, in order
    queries,  \* the queries run so far: the choice that ran each, its method and description
    messages, \* the messages the loop itself printed, each with the choice it answers
    waits     \* the "Press Enter to continue..." prompts answered so far

\* the state of the dispatcher and of the envelopes it returned
dispatchVars == <<call, ret, heap, stdout, snap, first>>

\* the state of the concurrent callers
threadVars == <<threads, locals>>

\* the state of the command-line scripts
scriptVars == <<pc, argv, installed, mcp_available, steps, printed, failed, exit_code, asked>>

\* the state of the formatter
formatVars == <<results, query_type, output>>

\* the state of the interactive demo
demoVars == <<loop, choices, queries, messages, waits>>

vars == <<dispatchVars, threadVars, scriptVars, formatVars, demoVars>>

(***************************************************************************)
(* Bounds of the model.                                                    *)
(***************************************************************************)
\* the most keyword phrases one query text of the input set is made of
MaxWords == 7
\* the most lines the output stream receives from a sequential caller
MaxLines == 2
\* the most calls of a behaviour in which callers hold several envelopes
MaxCalls == 3
\* the number of callers that call use_mcp_tool concurrently
MaxCallers == 2

(***************************************************************************)
(* Characters and the string operations the dispatcher uses.               *)
(***************************************************************************)
UpperCase ==
    <<"A","B","C","D","E","F","G","H","I","J","K","L","M","N","O","P","Q","R","S","T","U","V","W","X","Y","Z">>

LowerCase ==
    <<"a","b","c","d","e","f","g","h","i","j","k","l","m","n","o","p","q","r","s","t","u","v","w","x","y","z">>

ToLower ==
    [ch \in {UpperCase[i] : i \in 1..26} |->
        LowerCase[CHOOSE i \in 1..26 : UpperCase[i] = ch]]

ToUpper ==
    [ch \in {LowerCase[i] : i \in 1..26} |->
        UpperCase[CHOOSE i \in 1..26 : LowerCase[i] = ch]]

\* str.lower(): every cased character is replaced by its lower-case form
lower(s) ==
    [i \in 1..Len(s) |-> IF s[i] \in DOMAIN ToLower THEN ToLower[s[i]] ELSE s[i]]

\* str.upper()
upper(s) ==
    [i \in 1..Len(s) |-> IF s[i] \in DOMAIN ToUpper THEN ToUpper[s[i]] ELSE s[i]]

\* s.startswith(prefix)
startswith(s, prefix) ==
    /\ Len(prefix) <= Len(s)
    /\ \A i \in 1..Len(prefix) : s[i] = prefix[i]

\* sub in s
contains(sub, s) ==
    \E i \in 0..(Len(s) - Len(sub)) : \A j \in 1..Len(sub) : s[i + j] = sub[j]

(***************************************************************************)
(* The literals of mcp_tools.py.                                           *)
(***************************************************************************)
KW_select ==
    <<"s","e","l","e","c","t">>

KW_list ==
    <<"p","r","o","p","e","r","t","y","_","i","d",","," ","a","d","d","r","e","s","s",","," ","p","r","i","c","e"," ","f","r","o","m"," ","u","n","i","f","i","e","d","_","p","r","o","p","e","r","t","i","e","s">>

KW_json_extract ==
    <<"j","s","o","n","_","e","x","t","r","a","c","t">>

KW_bedrooms ==
    <<"b","e","d","r","o","o","m","s">>

KW_json_contains ==
    <<"j","s","o","n","_","c","o","n","t","a","i","n","s">>

KW_pool ==
    <<"p","o","o","l">>

KW_home_theater ==
    <<"h","o","m","e"," ","t","h","e","a","t","e","r">>

KW_luxury_waterfront ==
    <<"l","u","x","u","r","y"," ","w","a","t","e","r","f","r","o","n","t">>

KW_seattle ==
    <<"s","e","a","t","t","l","e">>

KW_family_friendly ==
    <<"f","a","m","i","l","y","-","f","r","i","e","n","d","l","y">>

KW_san_francisco ==
    <<"s","a","n"," ","f","r","a","n","c","i","s","c","o">>

\* the ten records of the property list
TenProperties ==
    << [property_id |-> 1, address |-> "123 Waterfront Ave, Seattle, WA", price |-> "1500000.00"],
       [property_id |-> 2, address |-> "456 Family Lane, San Francisco, CA", price |-> "750000.00"],
       [property_id |-> 3, address |-> "789 Investment Blvd, Portland, OR", price |-> "450000.00"],
       [property_id |-> 4, address |-> "101 Sustainable Way, Rural Portland, OR", price |-> "850000.00"],
       [property_id |-> 5, address |-> "555 Beach Dr, Malibu, CA", price |-> "3200000.00"],
       [property_id |-> 6, address |-> "222 Historic St, Boston, MA", price |-> "1750000.00"],
       [property_id |-> 7, address |-> "333 Pet Haven Ln, Chicago, IL", price |-> "425000.00"],
       [property_id |-> 8, address |-> "444 Retirement Dream Rd, Phoenix, AZ", price |-> "550000.00"],
       [property_id |-> 9, address |-> "777 Innovation Dr, San Jose, CA", price |-> "1850000.00"],
       [property_id |-> 10, address |-> "888 College View Dr, Berkeley, CA", price |-> "1250000.00"] >>

\* the record of the rule with all five luxury conditions
WaterfrontAll ==
    << [property_id |-> 1,
        address |-> "123 Waterfront Ave, Seattle, WA",
        price |-> "1500000.00",
        bedrooms |-> "5",
        amenities |-> "[\"pool\", \"home theater\", \"garden\", \"fireplace\", \"smart home\"]",
        description_excerpt |-> "Experience the epitome of luxury waterfront living in this stunning 5-bedroom modern minimalist architecture masterpiece in Seattle. This property features panoramic views of the Puget Sound, a private pool, home theater, and smart home technology throughout.",
        distance_km |-> "0.0000",
        vector_score |-> "3"] >>

\* A second copy of the record that drifted from the first: another score.
WaterfrontSeattle_OtherScore ==
    << [property_id |-> 1,
        address |-> "123 Waterfront Ave, Seattle, WA",
        price |-> "1500000.00",
        bedrooms |-> "5",
        amenities |-> "[\"pool\", \"home theater\", \"garden\", \"fireplace\", \"smart home\"]",
        description_excerpt |-> "Experience the epitome of luxury waterfront living in this stunning 5-bedroom modern minimalist architecture masterpiece in Seattle. This property features panoramic views of the Puget Sound, a private pool, home theater, and smart home technology throughout.",
        distance_km |-> "0.0000",
        vector_score |-> "1"] >>

\* the record of the "luxury waterfront" and "seattle" rule
WaterfrontSeattle ==
    << [property_id |-> 1,
        address |-> "123 Waterfront Ave, Seattle, WA",
        price |-> "1500000.00",
        bedrooms |-> "5",
        amenities |-> "[\"pool\", \"home theater\", \"garden\", \"fireplace\", \"smart home\"]",
        description_excerpt |-> "Experience the epitome of luxury waterfront living in this stunning 5-bedroom modern minimalist architecture masterpiece in Seattle. This property features panoramic views of the Puget Sound, a private pool, home theater, and smart home technology throughout.",
        distance_km |-> "0.0000",
        vector_score |-> "3"] >>

\* the record of the family-friendly rule
FamilyHome ==
    << [property_id |-> 2,
        address |-> "456 Family Lane, San Francisco, CA",
        price |-> "750000.00",
        bedrooms |-> "4",
        amenities |-> "[\"fenced yard\", \"playground\", \"security system\", \"garden\"]",
        description_excerpt |-> "Welcome to this charming family-friendly home in a safe neighborhood of San Francisco. This 4-bedroom property is perfect for families with its fenced yard, playground, and proximity to top-rated schools.",
        distance_km |-> "0.0000",
        vector_score |-> "2"] >>

(***************************************************************************)
(* use_mcp_tool.                                                           *)
(***************************************************************************)
\* A query that is not lower-cased.
Query_NoLower(arguments) ==
    IF "query" \in DOMAIN arguments THEN arguments.query ELSE <<>>

\* query = arguments.get("query", "").lower()
Query(arguments) ==
    lower(IF "query" \in DOMAIN arguments THEN arguments.query ELSE <<>>)

\* "property_id, address, price from unified_properties" in query
IsPropertyList(query) ==
    contains(KW_list, query)

\* A condition of the first luxury rule that asks for "seattle" as well.
IsLuxuryAll_NeedsSeattle(query) ==
    /\ contains(KW_json_extract, query)
    /\ contains(KW_bedrooms, query)
    /\ contains(KW_json_contains, query)
    /\ contains(KW_pool, query)
    /\ contains(KW_home_theater, query)
    /\ contains(KW_seattle, query)

\* the luxury waterfront query with all conditions
IsLuxuryAll(query) ==
    /\ contains(KW_json_extract, query)
    /\ contains(KW_bedrooms, query)
    /\ contains(KW_json_contains, query)
    /\ contains(KW_pool, query)
    /\ contains(KW_home_theater, query)

\* "luxury waterfront" in query and "seattle" in query
IsLuxurySeattle(query) ==
    /\ contains(KW_luxury_waterfront, query)
    /\ contains(KW_seattle, query)

\* A condition that spells the keyword without its hyphen.
IsFamilyFriendly_NoHyphen(query) ==
    /\ contains(<<"f","a","m","i","l","y"," ","f","r","i","e","n","d","l","y">>, query)
    /\ contains(KW_san_francisco, query)

\* "family-friendly" in query and "san francisco" in query
IsFamilyFriendly(query) ==
    /\ contains(KW_family_friendly, query)
    /\ contains(KW_san_francisco, query)

\* The rules in the order of the if/elif chain: position -> condition.
RuleHolds(i, query) ==
    CASE i = 1 -> IsPropertyList(query)
      [] i = 2 -> IsLuxuryAll(query)
      [] i = 3 -> IsLuxurySeattle(query)
      [] i = 4 -> IsFamilyFriendly(query)

\* position -> the keywords the rule's condition requires
RuleKeywords(i) ==
    CASE i = 1 -> {KW_list}
      [] i = 2 -> {KW_json_extract, KW_bedrooms, KW_json_contains, KW_pool, KW_home_theater}
      [] i = 3 -> {KW_luxury_waterfront, KW_seattle}
      [] i = 4 -> {KW_family_friendly, KW_san_francisco}

\* position -> the data of the rule's return statement
RuleData(i) ==
    CASE i = 1 -> TenProperties
      [] i = 2 -> WaterfrontAll
      [] i = 3 -> WaterfrontSeattle
      [] i = 4 -> FamilyHome

\* position -> the line of the rule's return statement
RuleSite(i) ==
    CASE i = 1 -> "L34"
      [] i = 2 -> "L53"
      [] i = 3 -> "L71"
      [] i = 4 -> "L89"

RuleCount == 4

\* A chain that tests the "luxury waterfront" rule before the rule with all
\* luxury conditions.
SelectBranch_SeattleFirst(query) ==
    IF IsPropertyList(query) THEN "L34"
    ELSE IF IsLuxurySeattle(query) THEN "L71"
    ELSE IF IsLuxuryAll(query) THEN "L53"
    ELSE IF IsFamilyFriendly(query) THEN "L89"
    ELSE "L107"

\* A chain that tests the family-friendly rule before the two luxury rules.
SelectBranch_FamilyFirst(query) ==
    IF IsPropertyList(query) THEN "L34"
    ELSE IF IsFamilyFriendly(query) THEN "L89"
    ELSE IF IsLuxuryAll(query) THEN "L53"
    ELSE IF IsLuxurySeattle(query) THEN "L71"
    ELSE "L107"

\* The if/elif chain of a SELECT query: the return statement it reaches,
\* named by its line.
SelectBranch(query) ==
    IF IsPropertyList(query) THEN "L34"
    ELSE IF IsLuxuryAll(query) THEN "L53"
    ELSE IF IsLuxurySeattle(query) THEN "L71"
    ELSE IF IsFamilyFriendly(query) THEN "L89"
    ELSE "L107"

\* str.lstrip(): the text without its leading whitespace
RECURSIVE lstrip(_)
lstrip(s) ==
    IF s # <<>> /\ Head(s) \in {" ", "\n", "\t"} THEN lstrip(Tail(s)) ELSE s

\* A dispatch that skips leading whitespace before it tests for "select".
SqlBranch_StripFirst(query) ==
    IF startswith(lstrip(query), KW_select) THEN SelectBranch(query) ELSE "L114"

\* A dispatch that runs the chain on every text.
SqlBranch_NoSelectGuard(query) ==
    SelectBranch(query)

\* if query.startswith("select"): the chain, else the return of line 114
SqlBranch(query) ==
    IF startswith(query, KW_select) THEN SelectBranch(query) ELSE "L114"

\* A control flow that tests the tool name alone.
Branch_ToolOnly(server_name, tool_name, arguments) ==
    IF tool_name = "execute_sql"
    THEN SqlBranch(Query(arguments))
    ELSE "L120"

\* The control flow of use_mcp_tool: the return statement a call reaches.
Branch(server_name, tool_name, arguments) ==
    IF server_name = "oceanbase" /\ tool_name = "execute_sql"
    THEN SqlBranch(Query(arguments))
    ELSE "L120"

\* The dict displays of the return statements, each named by its line.
Return_L34 ==
    [status |-> "success", data |-> TenProperties,
     message |-> "Query executed successfully"]

Return_L53 ==
    [status |-> "success", data |-> WaterfrontAll,
     message |-> "Query executed successfully"]

Return_L71 ==
    [status |-> "success", data |-> WaterfrontSeattle,
     message |-> "Query executed successfully"]

Return_L89 ==
    [status |-> "success", data |-> FamilyHome,
     message |-> "Query executed successfully"]

Return_L107 ==
    [status |-> "success", data |-> <<>>,
     message |-> "Query executed successfully"]

\* A return for other queries that carries an empty data list as well.
Return_L114_EmptyData ==
    [status |-> "success", data |-> <<>>,
     message |-> "Query executed successfully"]

Return_L114 ==
    [status |-> "success", message |-> "Query executed successfully"]

\* A generic response that reports an unknown tool as an error.
Return_L120_Error(server_name, tool_name) ==
    [status |-> "error",
     message |-> "Tool " \o tool_name \o " executed successfully on server " \o server_name]

Return_L120(server_name, tool_name) ==
    [status |-> "success",
     message |-> "Tool " \o tool_name \o " executed successfully on server " \o server_name]

\* The dict display of the return statement at `site`.
Literal(site, server_name, tool_name) ==
    CASE site = "L34" -> Return_L34
      [] site = "L53" -> Return_L53
      [] site = "L71" -> Return_L71
      [] site = "L89" -> Return_L89
      [] site = "L107" -> Return_L107
      [] site = "L114" -> Return_L114
      [] site = "L120" -> Return_L120(server_name, tool_name)

\* The value use_mcp_tool returns.
use_mcp_tool(server_name, tool_name, arguments) ==
    Literal(Branch(server_name, tool_name, arguments), server_name, tool_name)

\* A dispatcher that prints nothing.
PrintedLines_Silent(server_name, tool_name, arguments) == 0

\* The lines use_mcp_tool prints: the one print of line 24, on every call.
PrintedLines(server_name, tool_name, arguments) == 1

(***************************************************************************)
(* The inputs.  A query text is an opening followed by keyword phrases,    *)
(* each after a space, as written or in upper case.                        *)
(***************************************************************************)
PhraseSeq ==
    << KW_list, KW_json_extract, KW_bedrooms, KW_json_contains, KW_pool,
       KW_home_theater, KW_luxury_waterfront, KW_seattle, KW_family_friendly,
       KW_san_francisco >>

KW_insert ==
    <<"i","n","s","e","r","t">>

Openings ==
    { <<>>, KW_select, <<"\n">> \o KW_select, KW_insert }

RECURSIVE Body(_, _)
Body(S, i) ==
    IF i > Len(PhraseSeq) THEN <<>>
    ELSE (IF i \in S THEN <<" ">> \o PhraseSeq[i] ELSE <<>>) \o Body(S, i + 1)

WordSets ==
    {S \in SUBSET (1..Len(PhraseSeq)) : Cardinality(S) <= MaxWords}

\* the query of check_mcp_server
Text_select_1 ==
    <<"S","E","L","E","C","T"," ","1">>

\* a query over the whole table, as written and in lower case
Text_select_star ==
    <<"S","E","L","E","C","T"," ","*"," ","F","R","O","M"," ","u","n","i","f","i","e","d","_","p","r","o","p","e","r","t","i","e","s">>

ExampleTexts ==
    {Text_select_1, Text_select_star, lower(Text_select_star)}

Texts ==
    ExampleTexts \cup
    UNION { {o \o Body(S, 1), upper(o \o Body(S, 1))} : o \in Openings, S \in WordSets }

ServerNames == {"oceanbase", "postgres"}

ToolNames == {"execute_sql", "list_tables"}

\* the arguments mapping: with a query, or with no query key
NoArguments == [k \in {} |-> <<>>]

ArgumentMaps(texts) ==
    {NoArguments} \cup {[query |-> t] : t \in texts}

Calls ==
    [server : ServerNames, tool : ToolNames, arguments : ArgumentMaps(Texts)]

\* the texts of the behaviours with several calls: one per rule, and one that
\* is no SELECT statement
SeqWordSets ==
    { {1}, {2, 3, 4, 5, 6}, {9, 10} }

SeqTexts ==
    {KW_select \o Body(S, 1) : S \in SeqWordSets}
        \cup {upper(KW_select \o Body({7, 8}, 1)), KW_insert \o Body({7, 8}, 1)}

SeqCalls ==
    [server : {"oceanbase"}, tool : {"execute_sql"}, arguments : {[query |-> t] : t \in SeqTexts}]
        \cup [server : {"postgres"}, tool : {"list_tables"},
              arguments : {[query |-> KW_select \o Body({1}, 1)]}]

(***************************************************************************)
(* The state machine: callers call use_mcp_tool, hold the dict it returns, *)
(* may change it, and drop it.                                             *)
(***************************************************************************)
NoCall == [server |-> "", tool |-> "", arguments |-> NoArguments]

NoEnvelope == [status |-> ""]

NoObservation == [call |-> NoCall, addr |-> 0, val |-> NoEnvelope]

\* no script runs
NoScript ==
    /\ pc = "none"
    /\ argv = <<>>
    /\ installed = TRUE
    /\ mcp_available = FALSE
    /\ steps = <<>>
    /\ printed = <<>>
    /\ failed = FALSE
    /\ exit_code = 0
    /\ asked = 0

\* MCPDemo.run is not running
NoDemo ==
    /\ loop = "none"
    /\ choices = <<>>
    /\ queries = <<>>
    /\ messages = <<>>
    /\ waits = <<>>

\* format_results is not in use
NoFormat ==
    /\ results = <<>>
    /\ query_type = ""
    /\ output = <<>>

Init ==
    /\ call = NoCall
    /\ ret = 0
    /\ heap = <<>>
    /\ stdout = 0
    /\ snap = NoEnvelope
    /\ first = NoObservation
    /\ threads = <<>>
    /\ locals = <<>>
    /\ NoScript
    /\ NoFormat
    /\ NoDemo

\* A return statement that hands out one module-level dict per site: the
\* object built by an earlier call is returned again while it is alive.
DictDisplay_SharedFixture(h, site, val) ==
    IF \E a \in DOMAIN h : h[a].site = site
    THEN [addr |-> CHOOSE a \in DOMAIN h : h[a].site = site, heap |-> h]
    ELSE LET a == CHOOSE n \in 1..(Cardinality(DOMAIN h) + 1) : n \notin DOMAIN h
         IN  [addr |-> a, heap |-> (a :> [site |-> site, val |-> val]) @@ h]

\* Evaluating a dict display creates a new object: an address no held object has.
DictDisplay(h, site, val) ==
    LET a == CHOOSE n \in 1..(Cardinality(DOMAIN h) + 1) : n \notin DOMAIN h
    IN  [addr |-> a, heap |-> (a :> [site |-> site, val |-> val]) @@ h]

\* One call of use_mcp_tool: the print of line 24, then the return of a new dict.
Call(c) ==
    /\ LET site == Branch(c.server, c.tool, c.arguments)
           made == DictDisplay(heap, site, Literal(site, c.server, c.tool))
       IN  /\ heap' = made.heap
           /\ ret' = made.addr
           /\ snap' = made.heap[made.addr].val
    /\ call' = c
    /\ stdout' = stdout + PrintedLines(c.server, c.tool, c.arguments)

\* A caller changes a dict it holds: result["status"] = "error", or
\* result["data"] = [{"property_id": 0}].
Mutated(val, how) ==
    CASE how = "status" -> [val EXCEPT !.status = "error"]
      [] how = "data" -> [k \in DOMAIN val \cup {"data"} |->
                            IF k = "data" THEN << [property_id |-> 0] >> ELSE val[k]]

Mutate(a, how) ==
    /\ a \in DOMAIN heap
    /\ Mutated(heap[a].val, how) # heap[a].val
    /\ heap' = [heap EXCEPT ![a].val = Mutated(heap[a].val, how)]
    /\ UNCHANGED <<call, ret, stdout, snap, first>>
    /\ UNCHANGED <<threadVars, scriptVars, formatVars, demoVars>>

\* A caller drops a dict it holds.
Release(a) ==
    /\ a \in DOMAIN heap
    /\ heap' = [b \in DOMAIN heap \ {a} |-> heap[b]]
    /\ IF a = ret
       THEN call' = NoCall /\ ret' = 0 /\ snap' = NoEnvelope
       ELSE UNCHANGED <<call, ret, snap>>
    /\ UNCHANGED <<stdout, first>>
    /\ UNCHANGED <<threadVars, scriptVars, formatVars, demoVars>>

\* A call whose first occurrence is observed.
ObservedCall(c) ==
    /\ Call(c)
    /\ first' = IF first = NoObservation
                THEN [call |-> c, addr |-> ret', val |-> snap']
                ELSE first
    /\ UNCHANGED <<threadVars, scriptVars, formatVars, demoVars>>

\* A sequential caller: it holds one envelope at a time, and its calls range
\* over the whole input set.
SingleCall ==
    /\ DOMAIN heap = {}
    /\ stdout < MaxLines
    /\ \E c \in Calls : Call(c)
    /\ UNCHANGED first
    /\ UNCHANGED <<threadVars, scriptVars, formatVars, demoVars>>

Next ==
    \/ SingleCall
    \/ \E a \in DOMAIN heap : Release(a)

Spec == Init /\ [][Next]_vars

\* Callers that keep every envelope they got and change them.
NextSeq ==
    \/ stdout < MaxCalls /\ \E c \in SeqCalls : ObservedCall(c)
    \/ \E a \in DOMAIN heap, how \in {"status", "data"} : Mutate(a, how)

SpecSeq == Init /\ [][NextSeq]_vars

(***************************************************************************)
(* Concurrent callers.  Each caller makes one call of use_mcp_tool without *)
(* any lock; a step is one statement of the function, and the steps of the *)
(* callers interleave freely.  The parameters of a call live in its frame  *)
(* (threads[p].c), the variable `query` in the slot QueryVar(p).           *)
(***************************************************************************)
Callers == 1..MaxCallers

\* a caller that has not called yet; `during` records the callers whose call
\* was running when this one began
Idle == [pc |-> "idle", c |-> NoCall, ret |-> 0, during |-> {}]

\* the callers whose call is running
Running == {p \in DOMAIN threads : threads[p].pc \notin {"idle", "done"}}

InitConc ==
    /\ call = NoCall
    /\ ret = 0
    /\ heap = <<>>
    /\ stdout = 0
    /\ snap = NoEnvelope
    /\ first = NoObservation
    /\ threads = [p \in Callers |-> Idle]
    /\ locals = <<>>
    /\ NoScript
    /\ NoFormat
    /\ NoDemo

\* A `query` that is one module-level variable, shared by all the calls.
QueryVar_Global(p) == <<0, "query">>

\* `query` is a local variable: every call has its own, in its frame.
QueryVar(p) == <<p, "query">>

\* the value the call of p reads from `query`
ReadQuery(p) == locals[QueryVar(p)]

\* a return statement of the call of p: a new dict, handed to the caller
Return(p, site) ==
    LET c == threads[p].c
        made == DictDisplay(heap, site, Literal(site, c.server, c.tool))
    IN  /\ heap' = made.heap
        /\ ret' = made.addr
        /\ snap' = made.heap[made.addr].val
        /\ call' = c
        /\ threads' = [threads EXCEPT ![p].pc = "done", ![p].ret = made.addr]
        /\ UNCHANGED <<stdout, first, locals, scriptVars, formatVars, demoVars>>

\* the statement of p moves on to the line `to` and changes nothing else
Goto(p, to) ==
    /\ threads' = [threads EXCEPT ![p].pc = to]
    /\ UNCHANGED <<dispatchVars, locals, scriptVars, formatVars, demoVars>>

\* caller p calls use_mcp_tool(server_name, tool_name, arguments)
Enter(p, c) ==
    /\ threads[p].pc = "idle"
    /\ threads' = [threads EXCEPT ![p] = [pc |-> "L24", c |-> c, ret |-> 0,
                                          during |-> Running]]
    /\ UNCHANGED <<dispatchVars, locals, scriptVars, formatVars, demoVars>>

\* line 24: print(...)
Print_L24(p) ==
    /\ threads[p].pc = "L24"
    /\ stdout' = stdout + PrintedLines(threads[p].c.server, threads[p].c.tool, threads[p].c.arguments)
    /\ threads' = [threads EXCEPT ![p].pc = "L27"]
    /\ UNCHANGED <<call, ret, heap, snap, first, locals, scriptVars, formatVars, demoVars>>

\* line 27: if server_name == "oceanbase" and tool_name == "execute_sql",
\* else the return of line 120
Test_L27(p) ==
    /\ threads[p].pc = "L27"
    /\ IF threads[p].c.server = "oceanbase" /\ threads[p].c.tool = "execute_sql"
       THEN Goto(p, "L28")
       ELSE Return(p, "L120")

\* line 28: query = arguments.get("query", "").lower()
Assign_L28(p) ==
    /\ threads[p].pc = "L28"
    /\ locals' = (QueryVar(p) :> Query(threads[p].c.arguments)) @@ locals
    /\ threads' = [threads EXCEPT ![p].pc = "L31"]
    /\ UNCHANGED <<dispatchVars, scriptVars, formatVars, demoVars>>

\* line 31: if query.startswith("select"), else the return of line 114
Test_L31(p) ==
    /\ threads[p].pc = "L31"
    /\ IF startswith(ReadQuery(p), KW_select)
       THEN Goto(p, "L32")
       ELSE Return(p, "L114")

\* lines 32 to 111: the if/elif chain on query, and the return it reaches
Chain_L32(p) ==
    /\ threads[p].pc = "L32"
    /\ Return(p, SelectBranch(ReadQuery(p)))

NextConc ==
    \/ \E p \in Callers, c \in SeqCalls : Enter(p, c)
    \/ \E p \in Callers : Print_L24(p)
    \/ \E p \in Callers : Test_L27(p)
    \/ \E p \in Callers : Assign_L28(p)
    \/ \E p \in Callers : Test_L31(p)
    \/ \E p \in Callers : Chain_L32(p)

SpecConc == InitConc /\ [][NextConc]_vars

(***************************************************************************)
(* The command-line scripts: run_demo.py (batch and interactive mode) and  *)
(* run_luxury_waterfront_query.py.  The environment decides the command    *)
(* line, whether mcp_tools can be imported, how each child script ends and *)
(* what the user types at the menu.                                        *)
(***************************************************************************)
\* the most inputs the user types at the menu of the interactive mode
MaxInputs == 3

\* --component of run_demo.py
Components == {"setup", "vector", "mcp", "all"}

CommandLines ==
    [script : {"run_demo.py"}, batch : BOOLEAN, component : Components]
        \cup [script : {"run_luxury_waterfront_query.py"}, batch : {FALSE}, component : {"all"}]

\* the return codes of a child: an exit status, or minus the signal that ended it
ChildCodes == {0, 1, 2, -9}

\* how subprocess.run ends: the child exits, or the launch raises (OSError)
Outcomes ==
    [kind : {"exit"}, code : ChildCodes] \cup [kind : {"raise"}, code : {0}]

\* what the user types at the menu
Choices == {"1", "2", "3", "4", "5", "x"}

\* the query of execute_comprehensive_query
ComprehensiveQuery ==
       <<"\n">>
    \o <<" "," "," "," ","S","E","L","E","C","T"," ","\n">>
    \o <<" "," "," "," "," "," "," "," ","p","r","o","p","e","r","t","y","_","i","d",","," ","\n">>
    \o <<" "," "," "," "," "," "," "," ","a","d","d","r","e","s","s",","," ","\n">>
    \o <<" "," "," "," "," "," "," "," ","p","r","i","c","e",","," ","\n">>
    \o <<" "," "," "," "," "," "," "," ","J","S","O","N","_","E","X","T","R","A","C","T","(","f","e","a","t","u","r","e","s",","," ","'","$",".","b","e","d","r","o","o","m","s","'",")"," ","A","S"," ","b","e","d","r","o","o","m","s",",","\n">>
    \o <<" "," "," "," "," "," "," "," ","J","S","O","N","_","E","X","T","R","A","C","T","(","f","e","a","t","u","r","e","s",","," ","'","$",".","a","m","e","n","i","t","i","e","s","'",")"," ","A","S"," ","a","m","e","n","i","t","i","e","s",",","\n">>
    \o <<" "," "," "," "," "," "," "," ","S","U","B","S","T","R","I","N","G","(","d","e","s","c","r","i","p","t","i","o","n",","," ","1",","," ","1","5","0",")"," ","a","s"," ","d","e","s","c","r","i","p","t","i","o","n","_","e","x","c","e","r","p","t",",","\n">>
    \o <<" "," "," "," "," "," "," "," ","S","T","_","D","i","s","t","a","n","c","e","(","l","o","c","a","t","i","o","n",","," ","S","T","_","G","e","o","m","F","r","o","m","T","e","x","t","(","'","P","O","I","N","T","(","-","1","2","2",".","3","3","2","1"," ","4","7",".","6","0","6","2",")","'",")",")"," ","/"," ","1","0","0","0"," ","a","s"," ","d","i","s","t","a","n","c","e","_","k","m",",","\n">>
    \o <<" "," "," "," "," "," "," "," ","(","C","A","S","E"," ","W","H","E","N"," ","d","e","s","c","r","i","p","t","i","o","n"," ","L","I","K","E"," ","'","%","m","o","d","e","r","n","%","'"," ","A","N","D"," ","d","e","s","c","r","i","p","t","i","o","n"," ","L","I","K","E"," ","'","%","m","i","n","i","m","a","l","i","s","t","%","'"," ","T","H","E","N"," ","3","\n">>
    \o <<" "," "," "," "," "," "," "," "," "," "," "," "," "," ","W","H","E","N"," ","d","e","s","c","r","i","p","t","i","o","n"," ","L","I","K","E"," ","'","%","m","o","d","e","r","n","%","'"," ","T","H","E","N"," ","2"," ","\n">>
    \o <<" "," "," "," "," "," "," "," "," "," "," "," "," "," ","W","H","E","N"," ","d","e","s","c","r","i","p","t","i","o","n"," ","L","I","K","E"," ","'","%","l","u","x","u","r","y","%","'"," ","T","H","E","N"," ","1"," ","\n">>
    \o <<" "," "," "," "," "," "," "," "," "," "," "," "," "," ","E","L","S","E"," ","0"," ","E","N","D",")"," ","a","s"," ","v","e","c","t","o","r","_","s","c","o","r","e","\n">>
    \o <<" "," "," "," ","F","R","O","M"," ","\n">>
    \o <<" "," "," "," "," "," "," "," ","u","n","i","f","i","e","d","_","p","r","o","p","e","r","t","i","e","s"," ","\n">>
    \o <<" "," "," "," ","W","H","E","R","E"," ","\n">>
    \o <<" "," "," "," "," "," "," "," ","-","-"," ","S","Q","L"," ","(","R","e","l","a","t","i","o","n","a","l",")"," ","c","o","n","d","i","t","i","o","n","s","\n">>
    \o <<" "," "," "," "," "," "," "," ","J","S","O","N","_","E","X","T","R","A","C","T","(","f","e","a","t","u","r","e","s",","," ","'","$",".","b","e","d","r","o","o","m","s","'",")"," ",">","="," ","4","\n">>
    \o <<" "," "," "," "," "," "," "," ","\n">>
    \o <<" "," "," "," "," "," "," "," ","-","-"," ","J","S","O","N"," ","(","N","o","S","Q","L",")"," ","c","o","n","d","i","t","i","o","n","s","\n">>
    \o <<" "," "," "," "," "," "," "," ","A","N","D"," ","J","S","O","N","_","C","O","N","T","A","I","N","S","(","J","S","O","N","_","E","X","T","R","A","C","T","(","f","e","a","t","u","r","e","s",","," ","'","$",".","a","m","e","n","i","t","i","e","s","'",")",","," ","'","\"","p","o","o","l","\"","'",")","\n">>
    \o <<" "," "," "," "," "," "," "," ","A","N","D"," ","J","S","O","N","_","C","O","N","T","A","I","N","S","(","J","S","O","N","_","E","X","T","R","A","C","T","(","f","e","a","t","u","r","e","s",","," ","'","$",".","a","m","e","n","i","t","i","e","s","'",")",","," ","'","\"","h","o","m","e"," ","t","h","e","a","t","e","r","\"","'",")","\n">>
    \o <<" "," "," "," "," "," "," "," ","\n">>
    \o <<" "," "," "," "," "," "," "," ","-","-"," ","G","e","o","s","p","a","t","i","a","l"," ","(","G","I","S",")"," ","c","o","n","d","i","t","i","o","n","s","\n">>
    \o <<" "," "," "," "," "," "," "," ","A","N","D"," ","S","T","_","C","o","n","t","a","i","n","s","(","\n">>
    \o <<" "," "," "," "," "," "," "," "," "," "," "," ","S","T","_","B","u","f","f","e","r","(","\n">>
    \o <<" "," "," "," "," "," "," "," "," "," "," "," "," "," "," "," ","S","T","_","G","e","o","m","F","r","o","m","T","e","x","t","(","'","P","O","I","N","T","(","-","1","2","2",".","3","3","2","1"," ","4","7",".","6","0","6","2",")","'",")",","," "," ","-","-"," ","S","e","a","t","t","l","e","\n">>
    \o <<" "," "," "," "," "," "," "," "," "," "," "," "," "," "," "," ","1","6","0","9","3",".","4"," "," ","-","-"," ","1","0"," ","m","i","l","e","s"," ","i","n"," ","m","e","t","e","r","s","\n">>
    \o <<" "," "," "," "," "," "," "," "," "," "," "," ",")",",","\n">>
    \o <<" "," "," "," "," "," "," "," "," "," "," "," ","l","o","c","a","t","i","o","n","\n">>
    \o <<" "," "," "," "," "," "," "," ",")","\n">>
    \o <<" "," "," "," "," "," "," "," ","\n">>
    \o <<" "," "," "," "," "," "," "," ","-","-"," ","F","u","l","l","-","t","e","x","t"," ","s","e","a","r","c","h"," ","c","o","n","d","i","t","i","o","n","s","\n">>
    \o <<" "," "," "," "," "," "," "," ","A","N","D"," ","d","e","s","c","r","i","p","t","i","o","n"," ","L","I","K","E"," ","'","%","l","u","x","u","r","y","%","'"," ","\n">>
    \o <<" "," "," "," "," "," "," "," ","A","N","D"," ","d","e","s","c","r","i","p","t","i","o","n"," ","L","I","K","E"," ","'","%","w","a","t","e","r","f","r","o","n","t","%","'","\n">>
    \o <<" "," "," "," "," "," "," "," ","A","N","D"," ","d","e","s","c","r","i","p","t","i","o","n"," ","L","I","K","E"," ","'","%","p","a","n","o","r","a","m","i","c"," ","v","i","e","w","%","'","\n">>
    \o <<" "," "," "," "," "," "," "," ","\n">>
    \o <<" "," "," "," "," "," "," "," ","-","-"," ","V","e","c","t","o","r"," ","s","i","m","i","l","a","r","i","t","y"," ","c","o","n","d","i","t","i","o","n","s"," ","(","s","i","m","u","l","a","t","e","d",")","\n">>
    \o <<" "," "," "," "," "," "," "," ","A","N","D"," ","(","d","e","s","c","r","i","p","t","i","o","n"," ","L","I","K","E"," ","'","%","m","o","d","e","r","n","%","'"," ","O","R"," ","d","e","s","c","r","i","p","t","i","o","n"," ","L","I","K","E"," ","'","%","m","i","n","i","m","a","l","i","s","t","%","'",")","\n">>
    \o <<" "," "," "," "," "," "," "," ","\n">>
    \o <<" "," "," "," ","O","R","D","E","R"," ","B","Y"," ","\n">>
    \o <<" "," "," "," "," "," "," "," ","v","e","c","t","o","r","_","s","c","o","r","e"," ","D","E","S","C",",","\n">>
    \o <<" "," "," "," "," "," "," "," ","d","i","s","t","a","n","c","e","_","k","m"," ","A","S","C","\n">>
    \o <<" "," "," "," ">>

InitRun ==
    /\ call = NoCall
    /\ ret = 0
    /\ heap = <<>>
    /\ stdout = 0
    /\ snap = NoEnvelope
    /\ first = NoObservation
    /\ threads = <<>>
    /\ locals = <<>>
    /\ pc = "main"
    /\ argv \in CommandLines
    /\ installed \in BOOLEAN
    /\ mcp_available = FALSE
    /\ steps = <<>>
    /\ printed = <<>>
    /\ failed = FALSE
    /\ exit_code = 0
    /\ asked = 0
    /\ NoFormat
    /\ NoDemo

\* A run_script that reports every failure as 1.
run_script_FlatCode(outcome) ==
    IF outcome.kind = "exit" /\ outcome.code = 0
    THEN [returned |-> 0, printed |-> "completed successfully"]
    ELSE [returned |-> 1, printed |-> "failed with exit code"]

\* run_script: the value it returns and the line it prints after the child,
\* for an outcome of subprocess.run(..., check=True)
run_script(outcome) ==
    IF outcome.kind = "raise"
    THEN [returned |-> 1, printed |-> "failed:"]
    ELSE IF outcome.code = 0
         THEN [returned |-> 0, printed |-> "completed successfully"]
         ELSE [returned |-> outcome.code, printed |-> "failed with exit code"]

\* the child script run_script launches at a position
ScriptAt(at) ==
    CASE at \in {"setup", "all_setup"} -> "setup_database.py"
      [] at \in {"vector", "all_vector"} -> "bedrock_vector_demo.py"
      [] at \in {"mcp_script", "all_mcp"} -> "setup_database_mcp.py"

\* the warning run_all_demos prints after a step that returned non-zero
WarningAt(at) ==
    CASE at = "all_setup" -> "Database setup failed. Continuing anyway."
      [] at = "all_vector" -> "Vector similarity demo failed. Continuing anyway."
      [] at = "all_mcp" -> "MCP database setup failed. Continuing anyway."

\* the entry a call of run_script leaves in the log
Launched(at, outcome) ==
    [step |-> ScriptAt(at), failed |-> run_script(outcome).returned # 0,
     outcome |-> outcome, returned |-> run_script(outcome).returned]

\* check_mcp_server: the import, the query "SELECT 1", and the line printed;
\* the result of use_mcp_tool is a local that is dropped on return
check_mcp_server ==
    /\ IF installed
       THEN LET c == [server |-> "oceanbase", tool |-> "execute_sql",
                      arguments |-> [query |-> Text_select_1]]
            IN  /\ call' = c
                /\ snap' = use_mcp_tool(c.server, c.tool, c.arguments)
                /\ stdout' = stdout + PrintedLines(c.server, c.tool, c.arguments)
                /\ UNCHANGED <<ret, heap, first>>
       ELSE UNCHANGED dispatchVars
    /\ steps' = Append(steps, [step |-> "check_mcp_server", failed |-> ~installed])
    /\ failed' = (failed \/ ~installed)

\* the line check_mcp_server prints
CheckPrinted ==
    IF installed THEN "OceanBase MCP server is running"
    ELSE "Failed to import mcp_tools module"

\* a command of run_demo.py ends with the value v: batch mode returns it to
\* main, the interactive mode drops it and shows the menu again
Finish(v) ==
    IF argv.batch
    THEN pc' = "exit" /\ exit_code' = v
    ELSE pc' = "menu" /\ UNCHANGED exit_code

\* main of run_demo.py: the command line decides the mode
main ==
    /\ pc = "main"
    /\ argv.script = "run_demo.py"
    /\ pc' = IF argv.batch THEN "batch" ELSE "menu"
    /\ UNCHANGED <<argv, installed, mcp_available, steps, printed, failed, exit_code, asked>>
    /\ UNCHANGED <<dispatchVars, threadVars, formatVars, demoVars>>

\* run_batch_mode: the branch of the component
run_batch_mode ==
    /\ pc = "batch"
    /\ pc' = CASE argv.component = "setup" -> "setup"
               [] argv.component = "vector" -> "vector"
               [] argv.component = "mcp" -> "mcp_check"
               [] argv.component = "all" -> "all_check"
    /\ UNCHANGED <<argv, installed, mcp_available, steps, printed, failed, exit_code, asked>>
    /\ UNCHANGED <<dispatchVars, threadVars, formatVars, demoVars>>

\* run_interactive_mode: show_menu reads a choice, and the branch of the choice
show_menu(choice) ==
    /\ pc = "menu"
    /\ asked < MaxInputs
    /\ asked' = asked + 1
    /\ steps' = <<>>
    /\ printed' = CASE choice = "5" -> <<"Thank you for exploring the OceanBase Multi-Model Demo!">>
                    [] choice \in {"1", "2", "3", "4"} -> <<>>
                    [] OTHER -> <<"Invalid choice. Please enter a number between 1 and 5.">>
    /\ pc' = CASE choice = "1" -> "setup"
               [] choice = "2" -> "vector"
               [] choice = "3" -> "mcp_check"
               [] choice = "4" -> "all_check"
               [] choice = "5" -> "exit"
               [] OTHER -> "menu"
    /\ exit_code' = 0
    /\ UNCHANGED <<argv, installed, mcp_available, failed>>
    /\ UNCHANGED <<dispatchVars, threadVars, formatVars, demoVars>>

\* a single run_script: component setup, vector or mcp, or choice 1, 2 or 3
run_one(outcome) ==
    /\ pc \in {"setup", "vector", "mcp_script"}
    /\ steps' = Append(steps, Launched(pc, outcome))
    /\ printed' = Append(printed, run_script(outcome).printed)
    /\ failed' = (failed \/ run_script(outcome).returned # 0)
    /\ Finish(run_script(outcome).returned)
    /\ UNCHANGED <<argv, installed, mcp_available, asked>>
    /\ UNCHANGED <<dispatchVars, threadVars, formatVars, demoVars>>

\* component mcp, or choice 3: if check_mcp_server(): ... else: ... return 1
check_for_mcp ==
    /\ pc = "mcp_check"
    /\ check_mcp_server
    /\ IF installed
       THEN /\ printed' = Append(printed, CheckPrinted)
            /\ pc' = "mcp_script"
            /\ UNCHANGED exit_code
       ELSE /\ printed' = printed \o <<CheckPrinted,
                              "MCP demo cannot run without the OceanBase MCP server.">>
            /\ Finish(1)
    /\ UNCHANGED <<argv, installed, mcp_available, asked>>
    /\ UNCHANGED <<threadVars, formatVars, demoVars>>

\* run_all_demos, line 137: mcp_available = check_mcp_server()
check_for_all ==
    /\ pc = "all_check"
    /\ check_mcp_server
    /\ mcp_available' = installed
    /\ printed' = Append(printed, CheckPrinted)
    /\ pc' = "all_setup"
    /\ UNCHANGED <<argv, installed, exit_code, asked>>
    /\ UNCHANGED <<threadVars, formatVars, demoVars>>

\* A run_all_demos that gives up after a step that failed.
AllNext_StopOnFailure(at, returned, available) ==
    IF returned # 0 THEN "all_done"
    ELSE CASE at = "all_setup" -> "all_vector"
           [] at = "all_vector" -> IF available THEN "all_mcp" ELSE "all_done"
           [] at = "all_mcp" -> "all_done"

\* run_all_demos: the position after the step at `at`
AllNext(at, returned, available) ==
    CASE at = "all_setup" -> "all_vector"
      [] at = "all_vector" -> IF available THEN "all_mcp" ELSE "all_done"
      [] at = "all_mcp" -> "all_done"

\* run_all_demos, steps 1 to 3: if run_script(...) != 0: print the warning
run_all_step(outcome) ==
    /\ pc \in {"all_setup", "all_vector", "all_mcp"}
    /\ steps' = Append(steps, Launched(pc, outcome))
    /\ printed' = printed \o <<run_script(outcome).printed>>
                     \o (IF run_script(outcome).returned # 0 THEN <<WarningAt(pc)>> ELSE <<>>)
    /\ failed' = (failed \/ run_script(outcome).returned # 0)
    /\ pc' = AllNext(pc, run_script(outcome).returned, mcp_available)
    /\ UNCHANGED <<argv, installed, mcp_available, exit_code, asked>>
    /\ UNCHANGED <<dispatchVars, threadVars, formatVars, demoVars>>

\* A batch mode that returns 1 for component all after a failure.
AllResult_FromFailures(anyFailed) ==
    IF anyFailed THEN 1 ELSE 0

\* the value run_batch_mode returns for component all: return 0 (line 179)
AllResult(anyFailed) == 0

\* run_all_demos, lines 152 to 159, and the return of its caller
run_all_done ==
    /\ pc = "all_done"
    /\ printed' = Append(printed, "The OceanBase Multi-Model Demo has completed successfully.")
    /\ Finish(AllResult(failed))
    /\ UNCHANGED <<argv, installed, mcp_available, steps, failed, asked>>
    /\ UNCHANGED <<dispatchVars, threadVars, formatVars, demoVars>>

\* run_luxury_waterfront_query.py, line 16: from mcp_tools import use_mcp_tool;
\* an ImportError there ends the script with a traceback and exit status 1
lux_import ==
    /\ pc = "main"
    /\ argv.script = "run_luxury_waterfront_query.py"
    /\ IF installed
       THEN pc' = "lux_query" /\ UNCHANGED <<printed, failed, exit_code>>
       ELSE /\ pc' = "exit"
            /\ exit_code' = 1
            /\ failed' = TRUE
            /\ printed' = Append(printed, "Traceback: ImportError")
    /\ UNCHANGED <<argv, installed, mcp_available, steps, asked>>
    /\ UNCHANGED <<dispatchVars, threadVars, formatVars, demoVars>>

\* execute_comprehensive_query, lines 65 to 113: the query is printed and
\* passed to execute_query_with_mcp, which calls use_mcp_tool and returns
\* the dict it got
execute_query_with_mcp ==
    /\ pc = "lux_query"
    /\ Call([server |-> "oceanbase", tool |-> "execute_sql",
             arguments |-> [query |-> ComprehensiveQuery]])
    /\ printed' = printed \o <<"Query:", "Executing comprehensive multi-model query",
                               "Query executed successfully using OceanBase MCP">>
    /\ pc' = "lux_format"
    /\ UNCHANGED <<argv, installed, mcp_available, steps, failed, exit_code, asked, first>>
    /\ UNCHANGED <<threadVars, formatVars, demoVars>>

\* not result.get('data') or len(result['data']) == 0
NoData(result) ==
    \/ "data" \notin DOMAIN result
    \/ Len(result.data) = 0

\* execute_comprehensive_query, lines 115 to 156: what is printed for result
show_result ==
    /\ pc = "lux_format"
    /\ printed' = printed \o
          (IF DOMAIN heap[ret].val = {} THEN <<"Failed to execute query.">>
           ELSE IF NoData(heap[ret].val) THEN <<"No results found matching your criteria.">>
           ELSE <<"Query Results:", "table", "Query Explanation:">>)
    /\ pc' = "lux_done"
    /\ UNCHANGED <<argv, installed, mcp_available, steps, failed, exit_code, asked>>
    /\ UNCHANGED <<dispatchVars, threadVars, formatVars, demoVars>>

\* run_demo of run_luxury_waterfront_query.py returns True: sys.exit(0)
lux_exit ==
    /\ pc = "lux_done"
    /\ pc' = "exit"
    /\ exit_code' = 0
    /\ UNCHANGED <<argv, installed, mcp_available, steps, printed, failed, asked>>
    /\ UNCHANGED <<dispatchVars, threadVars, formatVars, demoVars>>

NextRun ==
    \/ main
    \/ run_batch_mode
    \/ \E choice \in Choices : show_menu(choice)
    \/ \E outcome \in Outcomes : run_one(outcome)
    \/ check_for_mcp
    \/ check_for_all
    \/ \E outcome \in Outcomes : run_all_step(outcome)
    \/ run_all_done
    \/ lux_import
    \/ execute_query_with_mcp
    \/ show_result
    \/ lux_exit

SpecRun == InitRun /\ [][NextRun]_vars

(***************************************************************************)
(* MCPDemo.format_results of interactive_mcp_demo.py.  The text it returns *)
(* is held as the sequence of its lines (the pieces that end in a newline, *)
(* and a last piece without one), each a sequence of characters.  A float  *)
(* with two decimals (price, distance_km, investment_similarity) is held   *)
(* as its number of hundredths; the amenities are a list of texts          *)
(* ([list |-> ...]) or one text ([str |-> ...]).                           *)
(***************************************************************************)
\* the most records of a result list made of sample records
MaxRecords == 2

\* the length of the description prefix: prop['description'][:100]
DescriptionWidth == 100

Digit == <<"0", "1", "2", "3", "4", "5", "6", "7", "8", "9">>

\* str(n) for an integer n >= 0
RECURSIVE Digits(_)
Digits(n) ==
    IF n < 10 THEN <<Digit[n + 1]>>
    ELSE Digits(n \div 10) \o <<Digit[(n % 10) + 1]>>

\* the two decimals of a number of hundredths
Decimals(h) == <<Digit[((h % 100) \div 10) + 1], Digit[(h % 10) + 1]>>

\* the integer part with a comma between groups of three digits
RECURSIVE Grouped(_)
Grouped(n) ==
    IF n < 1000 THEN Digits(n)
    ELSE Grouped(n \div 1000)
            \o <<",", Digit[((n % 1000) \div 100) + 1], Digit[((n % 100) \div 10) + 1], Digit[(n % 10) + 1]>>

\* f"{x:.2f}" for x = h / 100, h >= 0
Fixed2(h) == Digits(h \div 100) \o <<".">> \o Decimals(h)

\* f"{float(x):,.2f}" for x = h / 100, h >= 0
Money(h) == Grouped(h \div 100) \o <<".">> \o Decimals(h)

\* ', '.join(list)
RECURSIVE Join(_)
Join(list) ==
    IF list = <<>> THEN <<>>
    ELSE IF Len(list) = 1 THEN list[1]
    ELSE list[1] \o <<",", " ">> \o Join(Tail(list))

\* s[:n]
Slice(s, n) == SubSeq(s, 1, IF Len(s) < n THEN Len(s) ELSE n)

\* prop.get(key, 'N/A')
Get(prop, key) == IF key \in DOMAIN prop THEN prop[key] ELSE <<"N","/","A">>

L_property == <<"P","r","o","p","e","r","t","y"," ">>

L_price == <<"P","r","i","c","e",":"," ","$">>

L_bedrooms == <<"B","e","d","r","o","o","m","s",":"," ">>

L_amenities == <<"A","m","e","n","i","t","i","e","s",":"," ">>

L_distance == <<"D","i","s","t","a","n","c","e"," ","f","r","o","m"," ","S","e","a","t","t","l","e",":"," ">>

L_similarity == <<"I","n","v","e","s","t","m","e","n","t"," ","S","i","m","i","l","a","r","i","t","y",":"," ">>

L_description == <<"D","e","s","c","r","i","p","t","i","o","n",":"," ">>

L_ellipsis == <<".",".",".">>

L_none == <<"N","o"," ","p","r","o","p","e","r","t","i","e","s"," ","f","o","u","n","d"," ","m","a","t","c","h","i","n","g"," ","y","o","u","r"," ","c","r","i","t","e","r","i","a",".">>

\* the query type that gets the closing explanation
QT_investment == <<"I","n","v","e","s","t","m","e","n","t"," ","P","r","o","p","e","r","t","i","e","s">>

QT_fireplace == <<"P","r","o","p","e","r","t","i","e","s"," ","w","i","t","h"," ","F","i","r","e","p","l","a","c","e">>

\* the explanation after the results of "Investment Properties"
Explanation ==
    << <<>>,
       <<"T","h","i","s"," ","s","e","a","r","c","h"," ","d","e","m","o","n","s","t","r","a","t","e","s"," ","O","c","e","a","n","B","a","s","e","'","s"," ","m","u","l","t","i","-","m","o","d","e","l"," ","c","a","p","a","b","i","l","i","t","i","e","s"," ","b","y"," ","c","o","m","b","i","n","i","n","g",":">>,
       <<"1","."," ","V","e","c","t","o","r"," ","s","e","a","r","c","h"," ","f","o","r"," ","i","n","v","e","s","t","m","e","n","t"," ","p","r","o","f","i","l","e"," ","m","a","t","c","h","i","n","g">>,
       <<"2","."," ","J","S","O","N"," ","f","i","l","t","e","r","i","n","g"," ","f","o","r"," ","p","r","o","p","e","r","t","y"," ","f","e","a","t","u","r","e","s">>,
       <<"3","."," ","F","u","l","l","-","t","e","x","t"," ","s","e","a","r","c","h"," ","f","o","r"," ","p","r","o","p","e","r","t","y"," ","d","e","s","c","r","i","p","t","i","o","n","s">>,
       <<"4","."," ","S","p","a","t","i","a","l"," ","s","e","a","r","c","h"," ","f","o","r"," ","l","o","c","a","t","i","o","n","-","b","a","s","e","d"," ","f","i","l","t","e","r","i","n","g">>,
       <<"5","."," ","T","r","a","d","i","t","i","o","n","a","l"," ","r","e","l","a","t","i","o","n","a","l"," ","d","a","t","a"," ","f","o","r"," ","b","a","s","i","c"," ","p","r","o","p","e","r","t","y"," ","i","n","f","o","r","m","a","t","i","o","n">> >>

\* f"Property {i}: {address}, {city}, {state}"
HeaderLine(i, prop) ==
    L_property \o Digits(i) \o <<":", " ">> \o Get(prop, "address")
        \o <<",", " ">> \o Get(prop, "city") \o <<",", " ">> \o Get(prop, "state")

\* if 'price' in prop: the price line
PriceLines(prop) ==
    IF "price" \in DOMAIN prop THEN << L_price \o Money(prop.price) >> ELSE <<>>

\* A bedrooms line that is printed with a default when the field is absent.
BedroomsLines_Default(prop) ==
    << L_bedrooms \o (IF "bedrooms" \in DOMAIN prop THEN Digits(prop.bedrooms) ELSE <<"N","/","A">>) >>

\* if 'bedrooms' in prop: the bedrooms line
BedroomsLines(prop) ==
    IF "bedrooms" \in DOMAIN prop THEN << L_bedrooms \o Digits(prop.bedrooms) >> ELSE <<>>

\* if 'amenities' in prop: the joined list, or the value as it is
AmenitiesLines(prop) ==
    IF "amenities" \in DOMAIN prop
    THEN IF "list" \in DOMAIN prop.amenities
         THEN << L_amenities \o Join(prop.amenities.list) >>
         ELSE << L_amenities \o prop.amenities.str >>
    ELSE <<>>

\* if 'distance_km' in prop: the distance line
DistanceLines(prop) ==
    IF "distance_km" \in DOMAIN prop
    THEN << L_distance \o Fixed2(prop.distance_km) \o <<" ","k","m">> >>
    ELSE <<>>

\* if 'investment_similarity' in prop: the similarity line
SimilarityLines(prop) ==
    IF "investment_similarity" \in DOMAIN prop
    THEN << L_similarity \o Fixed2(prop.investment_similarity) \o <<" ","(","l","o","w","e","r"," ","i","s"," ","b","e","t","t","e","r",")">> >>
    ELSE <<>>

\* A description line that gets the ellipsis only when the text was cut.
DescriptionLines_EllipsisWhenCut(prop) ==
    IF "description" \in DOMAIN prop
    THEN << L_description \o Slice(prop.description, DescriptionWidth)
               \o (IF Len(prop.description) > DescriptionWidth THEN L_ellipsis ELSE <<>>) >>
    ELSE <<>>

\* if 'description' in prop: f"Description: {prop['description'][:100]}..."
DescriptionLines(prop) ==
    IF "description" \in DOMAIN prop
    THEN << L_description \o Slice(prop.description, DescriptionWidth) \o L_ellipsis >>
    ELSE <<>>

\* the body of the for loop: the lines of one property, and the empty line
PropertyLines(i, prop) ==
    << HeaderLine(i, prop) >>
        \o PriceLines(prop) \o BedroomsLines(prop) \o AmenitiesLines(prop)
        \o DistanceLines(prop) \o SimilarityLines(prop) \o DescriptionLines(prop)
        \o << <<>> >>

\* for i, prop in enumerate(results, 1)
RECURSIVE PropertyBlocks(_, _)
PropertyBlocks(rs, i) ==
    IF i > Len(rs) THEN <<>>
    ELSE PropertyLines(i, rs[i]) \o PropertyBlocks(rs, i + 1)

\* MCPDemo.format_results(results, query_type)
format_results(rs, qt) ==
    IF rs = <<>> THEN << L_none >>
    ELSE << <<>>, <<"=","=","="," ">> \o qt \o <<" ","R","e","s","u","l","t","s"," ","=","=","=">>, <<>> >>
            \o PropertyBlocks(rs, 1)
            \o (IF qt = QT_investment THEN Explanation ELSE <<>>)

\* get_sample_investment_results
SampleInvestment ==
    << [id |-> 1,
        address |-> <<"1","2","3"," ","M","o","u","n","t","a","i","n"," ","V","i","e","w"," ","C","a","b","i","n">>,
        city |-> <<"L","e","a","v","e","n","w","o","r","t","h">>,
        state |-> <<"W","A">>,
        price |-> 95000000,
        bedrooms |-> 4,
        bathrooms |-> 3,
        property_type |-> <<"C","a","b","i","n">>,
        amenities |-> [list |-> << <<"h","o","t"," ","t","u","b">>, <<"f","i","r","e","p","l","a","c","e">>, <<"m","o","u","n","t","a","i","n"," ","v","i","e","w">>, <<"d","e","c","k">>, <<"g","a","m","e"," ","r","o","o","m">> >>],
        location |-> <<"P","O","I","N","T","(","-","1","2","0",".","6","6","1","5"," ","4","7",".","5","9","6","2",")">>,
        distance_km |-> 12526,
        description |-> <<"L","u","x","u","r","y"," ","v","a","c","a","t","i","o","n"," ","r","e","n","t","a","l"," ","p","r","o","p","e","r","t","y"," ","i","n"," ","t","h","e"," ","p","i","c","t","u","r","e","s","q","u","e"," ","B","a","v","a","r","i","a","n","-","s","t","y","l","e","d"," ","t","o","w","n"," ","o","f"," ","L","e","a","v","e","n","w","o","r","t","h",".",".",".">>,
        investment_similarity |-> 48],
       [id |-> 2,
        address |-> <<"4","5","6"," ","P","i","n","e"," ","S","t">>,
        city |-> <<"S","e","a","t","t","l","e">>,
        state |-> <<"W","A">>,
        price |-> 75000000,
        bedrooms |-> 4,
        bathrooms |-> 3,
        property_type |-> <<"H","o","u","s","e">>,
        amenities |-> [list |-> << <<"f","i","r","e","p","l","a","c","e">>, <<"b","a","l","c","o","n","y">>, <<"p","a","r","k","i","n","g">>, <<"p","o","o","l">> >>],
        location |-> <<"P","O","I","N","T","(","-","1","2","2",".","3","3","2","1"," ","4","7",".","6","0","6","2",")">>,
        distance_km |-> 0,
        description |-> <<"E","x","p","e","r","i","e","n","c","e"," ","t","h","e"," ","e","p","i","t","o","m","e"," ","o","f"," ","l","u","x","u","r","y"," ","l","i","v","i","n","g"," ","i","n"," ","t","h","i","s"," ","m","a","g","n","i","f","i","c","e","n","t"," ","4","-","b","e","d","r","o","o","m"," ","h","o","m","e"," ","i","n"," ","S","e","a","t","t","l","e",".",".",".">>,
        investment_similarity |-> 98] >>

\* get_sample_amenities_results
SampleAmenities ==
    << [id |-> 1,
        address |-> <<"1","2","3"," ","M","o","u","n","t","a","i","n"," ","V","i","e","w"," ","C","a","b","i","n">>,
        city |-> <<"L","e","a","v","e","n","w","o","r","t","h">>,
        state |-> <<"W","A">>,
        price |-> 95000000,
        amenities |-> [list |-> << <<"h","o","t"," ","t","u","b">>, <<"f","i","r","e","p","l","a","c","e">>, <<"m","o","u","n","t","a","i","n"," ","v","i","e","w">>, <<"d","e","c","k">>, <<"g","a","m","e"," ","r","o","o","m">> >>]],
       [id |-> 2,
        address |-> <<"4","5","6"," ","P","i","n","e"," ","S","t">>,
        city |-> <<"S","e","a","t","t","l","e">>,
        state |-> <<"W","A">>,
        price |-> 75000000,
        amenities |-> [list |-> << <<"f","i","r","e","p","l","a","c","e">>, <<"b","a","l","c","o","n","y">>, <<"p","a","r","k","i","n","g">>, <<"p","o","o","l">> >>]] >>

\* get_sample_description_results
SampleDescription ==
    << [id |-> 1,
        address |-> <<"1","2","3"," ","M","o","u","n","t","a","i","n"," ","V","i","e","w"," ","C","a","b","i","n">>,
        city |-> <<"L","e","a","v","e","n","w","o","r","t","h">>,
        state |-> <<"W","A">>,
        price |-> 95000000,
        description |-> <<"L","u","x","u","r","y"," ","v","a","c","a","t","i","o","n"," ","r","e","n","t","a","l"," ","p","r","o","p","e","r","t","y"," ","i","n"," ","t","h","e"," ","p","i","c","t","u","r","e","s","q","u","e"," ","B","a","v","a","r","i","a","n","-","s","t","y","l","e","d"," ","t","o","w","n"," ","o","f"," ","L","e","a","v","e","n","w","o","r","t","h",".",".",".">>],
       [id |-> 2,
        address |-> <<"4","5","6"," ","P","i","n","e"," ","S","t">>,
        city |-> <<"S","e","a","t","t","l","e">>,
        state |-> <<"W","A">>,
        price |-> 75000000,
        description |-> <<"E","x","p","e","r","i","e","n","c","e"," ","t","h","e"," ","e","p","i","t","o","m","e"," ","o","f"," ","l","u","x","u","r","y"," ","l","i","v","i","n","g"," ","i","n"," ","t","h","i","s"," ","m","a","g","n","i","f","i","c","e","n","t"," ","4","-","b","e","d","r","o","o","m"," ","h","o","m","e"," ","i","n"," ","S","e","a","t","t","l","e",".",".",".">>] >>

\* get_sample_location_results
SampleLocation ==
    << [id |-> 2,
        address |-> <<"4","5","6"," ","P","i","n","e"," ","S","t">>,
        city |-> <<"S","e","a","t","t","l","e">>,
        state |-> <<"W","A">>,
        distance_km |-> 0],
       [id |-> 1,
        address |-> <<"1","2","3"," ","M","o","u","n","t","a","i","n"," ","V","i","e","w"," ","C","a","b","i","n">>,
        city |-> <<"L","e","a","v","e","n","w","o","r","t","h">>,
        state |-> <<"W","A">>,
        distance_km |-> 12526] >>

\* get_sample_vector_results
SampleVector ==
    << [id |-> 1,
        address |-> <<"1","2","3"," ","M","o","u","n","t","a","i","n"," ","V","i","e","w"," ","C","a","b","i","n">>,
        city |-> <<"L","e","a","v","e","n","w","o","r","t","h">>,
        state |-> <<"W","A">>,
        price |-> 95000000,
        investment_similarity |-> 48],
       [id |-> 2,
        address |-> <<"4","5","6"," ","P","i","n","e"," ","S","t">>,
        city |-> <<"S","e","a","t","t","l","e">>,
        state |-> <<"W","A">>,
        price |-> 75000000,
        investment_similarity |-> 98] >>

\* the records of the sample results
SampleRecords ==
    UNION { {list[i] : i \in 1..Len(list)} :
            list \in {SampleInvestment, SampleAmenities, SampleDescription,
                      SampleLocation, SampleVector} }

\* a text of n characters
Pattern(n) == [i \in 1..n |-> Digit[(i % 10) + 1]]

\* the optional fields of a record
OptionalFields ==
    {"price", "bedrooms", "amenities", "distance_km", "investment_similarity", "description"}

\* the values an optional field takes in a record of the input set
FieldValues(f) ==
    CASE f = "price" -> {95000000}
      [] f = "bedrooms" -> {4}
      [] f = "amenities" -> {[list |-> <<<<"p","o","o","l">>, <<"g","a","r","d","e","n">>>>], [str |-> <<"[","\"","p","o","o","l","\"",","," ","\"","g","a","r","d","e","n","\"","]">>]}
      [] f = "distance_km" -> {0, 12526}
      [] f = "investment_similarity" -> {48}
      [] f = "description" -> {Pattern(n) : n \in {0, 99, 100, 101, 130}}

\* the field absent, or present with one of its values
Optional(f) == {<<>>} \cup {f :> v : v \in FieldValues(f)}

\* the address fields: all present, or all absent
Bases ==
    {<<>>, [address |-> <<"9"," ","E","l","m"," ","S","t">>, city |-> <<"T","a","c","o","m","a">>, state |-> <<"W","A">>]}

\* every record in which each optional field is present or absent
Records ==
    { b @@ p @@ br @@ a @@ d @@ s @@ t :
        b \in Bases, p \in Optional("price"), br \in Optional("bedrooms"),
        a \in Optional("amenities"), d \in Optional("distance_km"),
        s \in Optional("investment_similarity"), t \in Optional("description") }

\* the result lists: none, one record of any shape, several sample records
ResultLists ==
    {<<>>} \cup {<<r>> : r \in Records}
        \cup UNION { [1..n -> SampleRecords] : n \in 2..MaxRecords }

QueryTypes == {QT_investment, QT_fireplace}

InitFormat ==
    /\ call = NoCall
    /\ ret = 0
    /\ heap = <<>>
    /\ stdout = 0
    /\ snap = NoEnvelope
    /\ first = NoObservation
    /\ threads = <<>>
    /\ locals = <<>>
    /\ NoScript
    /\ results \in ResultLists
    /\ query_type \in QueryTypes
    /\ output = <<>>
    /\ NoDemo

\* formatted_results = self.format_results(results, query_type)
Format ==
    /\ output = <<>>
    /\ output' = format_results(results, query_type)
    /\ UNCHANGED <<results, query_type>>
    /\ UNCHANGED <<dispatchVars, threadVars, scriptVars, demoVars>>

NextFormat == Format

SpecFormat == InitFormat /\ [][NextFormat]_vars

(***************************************************************************)
(* The interactive demo: MCPDemo.run of interactive_mcp_demo.py.  Every    *)
(* prompt of input() is answered by a line of text.                        *)
(***************************************************************************)
\* the most choices the user makes at the menu
MaxChoices == 3

\* the lines the user types at "Enter your choice (1-6): "
MenuInputs == {"1", "2", "3", "4", "5", "6", "7", "", " 6", "6 "}

\* the lines the user types at "Press Enter to continue..."
EnterInputs == {"", "6"}

\* the description each query method passes to execute_mcp_query
Description ==
    [ run_investment_query |-> <<"I","n","v","e","s","t","m","e","n","t"," ","P","r","o","p","e","r","t","i","e","s"," ","Q","u","e","r","y"," ","(","A","l","l"," ","D","a","t","a"," ","T","y","p","e","s",")">>,
      run_amenities_query |-> <<"J","S","O","N"," ","A","m","e","n","i","t","i","e","s"," ","Q","u","e","r","y">>,
      run_description_query |-> <<"F","u","l","l","-","t","e","x","t"," ","D","e","s","c","r","i","p","t","i","o","n"," ","Q","u","e","r","y">>,
      run_location_query |-> <<"S","p","a","t","i","a","l"," ","L","o","c","a","t","i","o","n"," ","Q","u","e","r","y">>,
      run_vector_query |-> <<"V","e","c","t","o","r"," ","S","i","m","i","l","a","r","i","t","y"," ","Q","u","e","r","y">> ]

\* the query type each query method passes to format_results
QueryType ==
    [ run_investment_query |-> QT_investment,
      run_amenities_query |-> QT_fireplace,
      run_description_query |-> <<"P","r","o","p","e","r","t","i","e","s"," ","w","i","t","h"," ","'","l","u","x","u","r","y"," ","v","i","e","w","'"," ","i","n"," ","D","e","s","c","r","i","p","t","i","o","n">>,
      run_location_query |-> <<"P","r","o","p","e","r","t","i","e","s"," ","w","i","t","h","i","n"," ","1","5","0","k","m"," ","o","f"," ","S","e","a","t","t","l","e">>,
      run_vector_query |-> <<"P","r","o","p","e","r","t","i","e","s"," ","S","i","m","i","l","a","r"," ","t","o"," ","P","r","e","m","i","u","m"," ","I","n","v","e","s","t","m","e","n","t"," ","P","r","o","f","i","l","e">> ]

\* MCPDemo.execute_mcp_query(query, description): the sample results are
\* chosen by the first keyword the lower-cased description holds
execute_mcp_query(description) ==
    LET d == lower(description) IN
    IF contains(<<"i","n","v","e","s","t","m","e","n","t">>, d) THEN SampleInvestment
    ELSE IF contains(<<"a","m","e","n","i","t","i","e","s">>, d) THEN SampleAmenities
    ELSE IF contains(<<"d","e","s","c","r","i","p","t","i","o","n">>, d) THEN SampleDescription
    ELSE IF contains(<<"l","o","c","a","t","i","o","n">>, d) THEN SampleLocation
    ELSE IF contains(<<"v","e","c","t","o","r">>, d) THEN SampleVector
    ELSE <<>>

\* a choice '6' that is compared as a number never matches
RunBranch_NumberSix(choice) ==
    IF choice = "1" THEN "run_investment_query"
    ELSE IF choice = "2" THEN "run_amenities_query"
    ELSE IF choice = "3" THEN "run_description_query"
    ELSE IF choice = "4" THEN "run_location_query"
    ELSE IF choice = "5" THEN "run_vector_query"
    ELSE "invalid"

\* the if/elif chain of MCPDemo.run: the branch taken on a choice
RunBranch(choice) ==
    IF choice = "1" THEN "run_investment_query"
    ELSE IF choice = "2" THEN "run_amenities_query"
    ELSE IF choice = "3" THEN "run_description_query"
    ELSE IF choice = "4" THEN "run_location_query"
    ELSE IF choice = "5" THEN "run_vector_query"
    ELSE IF choice = "6" THEN "break"
    ELSE "invalid"

InitDemo ==
    /\ call = NoCall
    /\ ret = 0
    /\ heap = <<>>
    /\ stdout = 0
    /\ snap = NoEnvelope
    /\ first = NoObservation
    /\ threads = <<>>
    /\ locals = <<>>
    /\ NoScript
    /\ NoFormat
    /\ loop = "menu"
    /\ choices = <<>>
    /\ queries = <<>>
    /\ messages = <<>>
    /\ waits = <<>>

\* choice = self.display_menu(): the menu is printed and one line is read
display_menu(choice) ==
    /\ loop = "menu"
    /\ Len(choices) < MaxChoices
    /\ choices' = Append(choices, choice)
    /\ loop' = "chosen"
    /\ UNCHANGED <<queries, messages, waits>>
    /\ UNCHANGED <<dispatchVars, threadVars, scriptVars, formatVars>>

\* the body the five query methods share: execute_mcp_query, format_results
\* and the print of the formatted results, then on to the Enter prompt
RunQuery(method) ==
    /\ loop = "chosen"
    /\ RunBranch(choices[Len(choices)]) = method
    /\ results' = execute_mcp_query(Description[method])
    /\ query_type' = QueryType[method]
    /\ output' = format_results(results', query_type')
    /\ queries' = Append(queries, [choice |-> Len(choices), method |-> method,
                                   description |-> Description[method]])
    /\ loop' = "enter"
    /\ UNCHANGED <<choices, messages, waits>>
    /\ UNCHANGED <<dispatchVars, threadVars, scriptVars>>

run_investment_query == RunQuery("run_investment_query")

run_amenities_query == RunQuery("run_amenities_query")

run_description_query == RunQuery("run_description_query")

run_location_query == RunQuery("run_location_query")

run_vector_query == RunQuery("run_vector_query")

\* elif choice == '6': the goodbye is printed and the loop is left
exit_choice ==
    /\ loop = "chosen"
    /\ RunBranch(choices[Len(choices)]) = "break"
    /\ messages' = Append(messages, [choice |-> Len(choices),
                                     text |-> "Exiting OceanBase MCP Demo. Goodbye!"])
    /\ loop' = "returned"
    /\ UNCHANGED <<choices, queries, waits>>
    /\ UNCHANGED <<dispatchVars, threadVars, scriptVars, formatVars>>

\* else: the complaint is printed, then on to the Enter prompt
invalid_choice ==
    /\ loop = "chosen"
    /\ RunBranch(choices[Len(choices)]) = "invalid"
    /\ messages' = Append(messages, [choice |-> Len(choices),
                                     text |-> "Invalid choice. Please try again."])
    /\ loop' = "enter"
    /\ UNCHANGED <<choices, queries, waits>>
    /\ UNCHANGED <<dispatchVars, threadVars, scriptVars, formatVars>>

\* input("\nPress Enter to continue..."): the line read is dropped
press_enter(text) ==
    /\ loop = "enter"
    /\ waits' = Append(waits, [after |-> Len(choices), text |-> text])
    /\ loop' = "menu"
    /\ UNCHANGED <<choices, queries, messages>>
    /\ UNCHANGED <<dispatchVars, threadVars, scriptVars, formatVars>>

NextDemo ==
    \/ \E choice \in MenuInputs : display_menu(choice)
    \/ run_investment_query
    \/ run_amenities_query
    \/ run_description_query
    \/ run_location_query
    \/ run_vector_query
    \/ exit_choice
    \/ invalid_choice
    \/ \E text \in EnterInputs : press_enter(text)

SpecDemo == InitDemo /\ [][NextDemo]_vars

(***************************************************************************)
(* The claims.  A claim about one call is stated of the latest call: call  *)
(* holds its arguments and snap the envelope it returned.                  *)
(***************************************************************************)
\* the latest call went to the SQL tool of the oceanbase server
IsSqlCall ==
    call # NoCall /\ call.server = "oceanbase" /\ call.tool = "execute_sql"

\* the lower-cased query text of the latest call, the empty text when the
\* arguments have no query
CallQuery ==
    lower(IF "query" \in DOMAIN call.arguments THEN call.arguments.query ELSE <<>>)

\* the positions of the rules whose condition holds on the latest query
Holding == {i \in 1..RuleCount : RuleHolds(i, CallQuery)}

\* the lowest of a non-empty set of positions
Lowest(S) == CHOOSE i \in S : \A j \in S : i <= j

\* C1, as stated: for every query text the returned data is the fixture of
\* the lowest-positioned rule whose keyword condition holds on the
\* lower-cased text.
C1_FirstMatchOnEveryText ==
    (IsSqlCall /\ Holding # {}) =>
        ("data" \in DOMAIN snap /\ snap.data = RuleData(Lowest(Holding)))

\* C1, amended: for every query text whose lower-cased form begins with
\* "select", the returned data is the fixture of the lowest-positioned rule
\* whose keyword condition holds, whichever later rules also hold; a text
\* that does not begin so gets no fixture.
C1_FirstMatchOnSelect ==
    (IsSqlCall /\ Holding # {}) =>
        IF startswith(CallQuery, KW_select)
        THEN "data" \in DOMAIN snap /\ snap.data = RuleData(Lowest(Holding))
        ELSE "data" \notin DOMAIN snap

\* C1, witness: a SELECT text on which the third and the fourth rule hold
\* got the data of the third.
C1_Witness ==
    /\ IsSqlCall
    /\ startswith(CallQuery, KW_select)
    /\ Holding = {3, 4}
    /\ snap.data = RuleData(3)
    /\ snap.data # RuleData(4)

\* every keyword of the set occurs in the text
HasAll(keywords, query) == \A kw \in keywords : contains(kw, query)

\* the envelope of a SELECT query that matched no rule
EmptyResult ==
    [status |-> "success", data |-> <<>>, message |-> "Query executed successfully"]

\* C2, as stated: for any query text that contains none of the registered
\* keyword sets, the empty string included, dispatch returns status
\* "success", data = [] and message "Query executed successfully".
C2_EmptyDataOnEveryText ==
    (IsSqlCall /\ "query" \in DOMAIN call.arguments /\ Holding = {}) =>
        snap = EmptyResult

\* C2, amended: for any query text that contains none of the registered
\* keyword sets, dispatch returns status "success", data = [] and the message
\* when the lower-cased text begins with "select"; otherwise (the empty
\* string, a missing query) it returns status and message with no data field.
C2_EmptyDataOnSelect ==
    (IsSqlCall /\ Holding = {}) =>
        IF startswith(CallQuery, KW_select)
        THEN snap = EmptyResult
        ELSE snap = [status |-> "success", message |-> "Query executed successfully"]

\* C2, witness: a SELECT text with four of the five luxury keywords and
\* "seattle", which satisfies no rule, got the empty data list.
C2_Witness ==
    /\ IsSqlCall
    /\ Holding = {}
    /\ startswith(CallQuery, KW_select)
    /\ HasAll({KW_json_extract, KW_bedrooms, KW_json_contains, KW_pool, KW_seattle}, CallQuery)
    /\ snap.data = <<>>

\* the data is the one "123 Waterfront Ave" record with vector_score "3"
IsWaterfrontRecord(env) ==
    /\ "data" \in DOMAIN env
    /\ Len(env.data) = 1
    /\ env.data[1].address = "123 Waterfront Ave, Seattle, WA"
    /\ env.data[1].vector_score = "3"

IsFamilyRecord(env) ==
    /\ "data" \in DOMAIN env
    /\ Len(env.data) = 1
    /\ env.data[1].property_id = 2
    /\ env.data[1].address = "456 Family Lane, San Francisco, CA"
    /\ env.data[1].vector_score = "2"

\* C4, as stated: a query text containing family-friendly and san francisco,
\* in any letter case, gets exactly one record: property_id 2, "456 Family
\* Lane, San Francisco, CA", vector_score "2".
C4_FamilyOnEveryText ==
    (IsSqlCall /\ HasAll(RuleKeywords(4), CallQuery)) => IsFamilyRecord(snap)

\* the earlier rules whose keywords all occur in the latest query
EarlierThanFamily == {i \in 1..3 : HasAll(RuleKeywords(i), CallQuery)}

\* C4, amended: such a text gets exactly that record when its lower-cased
\* form begins with "select" and none of the three earlier rules holds on
\* it; when an earlier rule holds it gets the data of the first of them, and
\* a text that does not begin with "select" gets an envelope with no data
\* field.
C4_FamilyOnSelect ==
    (IsSqlCall /\ HasAll(RuleKeywords(4), CallQuery)) =>
        IF ~startswith(CallQuery, KW_select) THEN "data" \notin DOMAIN snap
        ELSE IF EarlierThanFamily # {} THEN snap.data = RuleData(Lowest(EarlierThanFamily))
        ELSE IsFamilyRecord(snap)

\* C4, witness: an upper-case SELECT text with the two keywords and with
\* "luxury waterfront" got the record.
C4_Witness ==
    /\ IsSqlCall
    /\ "query" \in DOMAIN call.arguments
    /\ call.arguments.query # CallQuery
    /\ startswith(CallQuery, KW_select)
    /\ HasAll(RuleKeywords(4) \cup {KW_luxury_waterfront}, CallQuery)
    /\ EarlierThanFamily = {}
    /\ IsFamilyRecord(snap)

\* the value is a sequence
IsSequence(v) == DOMAIN v = 1..Len(v)

C6_StatusSuccess ==
    call # NoCall => snap.status = "success"

\* C6, witness: a call to another server with a text that is no SELECT
\* statement got status "success".
C6_Witness ==
    /\ call # NoCall
    /\ call.server # "oceanbase"
    /\ "query" \in DOMAIN call.arguments
    /\ ~startswith(CallQuery, KW_select)
    /\ snap.status = "success"

\* the number of keyword conditions a rule requires
RuleSize(i) == Cardinality(RuleKeywords(i))

\* the return statement the latest call reached
Site == heap[ret].site

\* C7, as stated: of two rules that both hold on one query text, the one
\* requiring more keyword conditions is checked first, so the rule that
\* answers is never the more general of the two.
C7_MoreSpecificFirst ==
    (IsSqlCall /\ ret # 0) =>
        \A i \in Holding, j \in Holding :
            RuleSize(i) > RuleSize(j) => Site # RuleSite(j)

\* C7, amended: the invariant holds among the three keyword-conjunction rules
\* (five luxury conditions, then "luxury waterfront" and "seattle", then
\* "family-friendly" and "san francisco"); the ten-property list rule, which
\* requires one condition, is checked before all of them and answers every
\* SELECT text on which it holds.
C7_SpecificityAfterListRule ==
    (IsSqlCall /\ ret # 0) =>
        /\ \A i \in Holding \ {1}, j \in Holding \ {1} :
               RuleSize(i) > RuleSize(j) => Site # RuleSite(j)
        /\ (1 \in Holding /\ startswith(CallQuery, KW_select)) => Site = RuleSite(1)

\* C7, witness: both luxury rules held, the list rule did not, and the rule
\* with the five conditions answered.
C7_Witness ==
    /\ IsSqlCall
    /\ ret # 0
    /\ {2, 3} \subseteq Holding
    /\ 1 \notin Holding
    /\ Site = RuleSite(2)

\* the generic response for a tool and a server
GenericResponse(server_name, tool_name) ==
    [status |-> "success",
     message |-> "Tool " \o tool_name \o " executed successfully on server " \o server_name]

altcase(s) ==
    [i \in 1..Len(s) |-> IF i % 2 = 0 THEN upper(<<s[i]>>)[1] ELSE lower(<<s[i]>>)[1]]

\* texts that differ from t only in the case of their letters
CaseVariants(t) == {lower(t), upper(t), altcase(t)}

\* C9: two query texts that differ only in the case of their letters get
\* identical envelopes.
C9_CaseInsensitive ==
    (call # NoCall /\ "query" \in DOMAIN call.arguments) =>
        \A v \in CaseVariants(call.arguments.query) :
            use_mcp_tool(call.server, call.tool, [query |-> v]) = snap

\* C9, witness: the property-list query in upper case got the ten-property
\* list, as its alternating-case form does.
C9_Witness ==
    /\ IsSqlCall
    /\ "query" \in DOMAIN call.arguments
    /\ call.arguments.query = upper(call.arguments.query)
    /\ altcase(call.arguments.query) # call.arguments.query
    /\ "data" \in DOMAIN snap
    /\ snap.data = TenProperties
    /\ use_mcp_tool(call.server, call.tool, [query |-> altcase(call.arguments.query)]) = snap

\* C10: two calls with the same inputs return structurally equal envelopes,
\* whichever calls happened in between and whatever callers did to an
\* envelope returned earlier.
C10_SameCallSameEnvelope ==
    (first # NoObservation /\ call = first.call) => snap = first.val

\* C10, witness: the third call of a behaviour repeats the first one, whose
\* envelope is still held and was changed by its caller, and returns a new
\* dict with the value the first call returned, fixture data included.
C10_Witness ==
    /\ first # NoObservation
    /\ call = first.call
    /\ stdout = 3
    /\ ret # 0
    /\ ret # first.addr
    /\ first.addr \in DOMAIN heap
    /\ heap[first.addr].val # first.val
    /\ "data" \in DOMAIN snap
    /\ snap.data # <<>>
    /\ snap = first.val

\* a step in which use_mcp_tool returned: a dict that was not there before
CallStep == DOMAIN heap' \ DOMAIN heap # {}

\* C11, as stated: a call changes no state outside its return value; in
\* particular it emits nothing to the output stream, for every input.
C11_NothingWritten ==
    [][stdout' = stdout]_vars

\* C11, amended: a call changes no state outside its return value except the
\* output stream, to which it writes exactly one line on every call, for
\* every input (server, tool, arguments with or without a query); the dicts
\* callers hold are left as they are, and nothing but a call writes.
C11_OneLineWritten ==
    [][/\ CallStep => stdout' = stdout + 1
       /\ CallStep => \A a \in DOMAIN heap : heap'[a] = heap[a]
       /\ ~CallStep => stdout' = stdout]_vars

\* C11, witness: two calls were made, the latest to a tool other than the
\* SQL tool with no query at all, and two lines were written.
C11_Witness ==
    /\ call # NoCall
    /\ ~IsSqlCall
    /\ call.arguments = NoArguments
    /\ ret # 0
    /\ stdout = 2

\* the callers whose call has returned
Done == {p \in Callers : threads[p].pc = "done"}

\* the callers whose call has assigned `query` and not yet returned
Reading == {p \in Callers : threads[p].pc \in {"L31", "L32"}}

\* the envelope the call of p returns when it runs alone
Alone(p) ==
    use_mcp_tool(threads[p].c.server, threads[p].c.tool, threads[p].c.arguments)

\* C12: for any interleaving of the calls of different callers, made without
\* locking, each call returns the envelope it returns when run alone, in a
\* dict of its own, and no call writes state another call reads: the query a
\* call reads is the lower-cased text of its own arguments.
C12_NoInterference ==
    /\ \A p \in Done : heap[threads[p].ret].val = Alone(p)
    /\ \A p \in Done, q \in Done : p # q => threads[p].ret # threads[q].ret
    /\ \A p \in Reading :
           ReadQuery(p) = lower(IF "query" \in DOMAIN threads[p].c.arguments
                                THEN threads[p].c.arguments.query ELSE <<>>)

\* C12, witness: two calls with different queries overlapped (the second
\* caller began while the call of the first was running, and returned before
\* it), and each got the data of its own query.
C12_Witness ==
    /\ Done = {1, 2}
    /\ threads[2].during = {1}
    /\ threads[1].c # threads[2].c
    /\ threads[1].ret > threads[2].ret
    /\ heap[threads[1].ret].val = Return_L34
    /\ heap[threads[2].ret].val = Return_L89
    /\ call = threads[1].c
    /\ stdout = 2

\* the number of positions of a sequence whose entry is in a set
RECURSIVE CountIn(_, _)
CountIn(seq, S) ==
    IF seq = <<>> THEN 0
    ELSE (IF Head(seq) \in S THEN 1 ELSE 0) + CountIn(Tail(seq), S)

\* the lines that report a failure: of a child (run_script) and of the import
\* (check_mcp_server)
DiagnosticLines ==
    {"failed with exit code", "failed:", "Failed to import mcp_tools module"}

\* the number of failed entries of the log
RECURSIVE FailedSteps(_)
FailedSteps(log) ==
    IF log = <<>> THEN 0
    ELSE (IF Head(log).failed THEN 1 ELSE 0) + FailedSteps(Tail(log))

\* the exit status of the process for a value passed to sys.exit
ExitStatus(v) == v % 256

\* run_demo.py has ended
RunDemoExited == pc = "exit" /\ argv.script = "run_demo.py"

\* C13, as stated: whenever a child of run_demo.py exits non-zero or the
\* import of mcp_tools fails, the value main returns is non-zero, in batch
\* mode for every component and in interactive mode.
C13_FailureGivesNonZeroExit ==
    (RunDemoExited /\ failed) => exit_code # 0

\* C13, amended: every failure is printed as a diagnostic when it happens,
\* but it reaches the exit code only in batch mode with component setup,
\* vector or mcp, where main returns non-zero exactly when something failed;
\* with component all and in interactive mode main returns 0 whatever
\* failed.
C13_FailureSurfacedByComponent ==
    /\ argv.script = "run_demo.py" => FailedSteps(steps) = CountIn(printed, DiagnosticLines)
    /\ RunDemoExited =>
           IF argv.batch /\ argv.component \in {"setup", "vector", "mcp"}
           THEN /\ failed <=> exit_code # 0
                /\ failed <=> ExitStatus(exit_code) # 0
           ELSE exit_code = 0

\* C13, witness: batch mode with component all ended with 0 after the import
\* failed and two children failed, each failure with its diagnostic.
C13_Witness ==
    /\ RunDemoExited
    /\ argv.batch
    /\ argv.component = "all"
    /\ ~installed
    /\ FailedSteps(steps) = 3
    /\ CountIn(printed, DiagnosticLines) = 3
    /\ exit_code = 0

\* format_results has returned
Formatted == output # <<>>

\* the label that begins the line of an optional field
FieldLabel(f) ==
    CASE f = "price" -> L_price
      [] f = "bedrooms" -> L_bedrooms
      [] f = "amenities" -> L_amenities
      [] f = "distance_km" -> L_distance
      [] f = "investment_similarity" -> L_similarity
      [] f = "description" -> L_description

\* the line of the output that begins the i-th property
HeaderIndex(i) ==
    CHOOSE k \in 1..Len(output) :
        startswith(output[k], L_property \o Digits(i) \o <<":", " ">>)

\* the empty line that ends the i-th property
BlockEnd(i) ==
    CHOOSE k \in (HeaderIndex(i) + 1)..Len(output) :
        /\ output[k] = <<>>
        /\ \A j \in (HeaderIndex(i) + 1)..(k - 1) : output[j] # <<>>

\* the lines of the i-th property that begin with the label of a field
LinesFor(i, f) ==
    {k \in (HeaderIndex(i) + 1)..(BlockEnd(i) - 1) : startswith(output[k], FieldLabel(f))}

Prefix100(d) == [j \in 1..(IF Len(d) < 100 THEN Len(d) ELSE 100) |-> d[j]]

\* C15: a description is shown as its first min(100, length) characters
\* followed by "...", whether it is shorter than, as long as or longer than
\* 100 characters.
C15_PrefixAndEllipsis ==
    (Formatted /\ results # <<>>) =>
        \A i \in 1..Len(results) :
            "description" \in DOMAIN results[i] =>
                /\ LinesFor(i, "description") # {}
                /\ \A k \in LinesFor(i, "description") :
                       /\ output[k] = L_description \o Prefix100(results[i].description)
                                          \o <<".", ".", ".">>
                       /\ Len(output[k]) <= Len(L_description) + 100 + 3

\* C15, witness: a description of 101 characters was shown as 100 characters
\* and the ellipsis, its last character left out.
C15_Witness ==
    /\ Formatted
    /\ Len(results) = 1
    /\ "description" \in DOMAIN results[1]
    /\ Len(results[1].description) = 101
    /\ \E k \in LinesFor(1, "description") :
           /\ Len(output[k]) = Len(L_description) + 103
           /\ output[k][Len(L_description) + 100] = results[1].description[100]
           /\ output[k][Len(L_description) + 101] = "."

\* run_luxury_waterfront_query.py has shown the result of its query
LuxuryShown ==
    /\ argv # <<>>
    /\ argv.script = "run_luxury_waterfront_query.py"
    /\ pc \in {"lux_done", "exit"}
    /\ ret # 0

\* the message is among the messages printed
Printed(message) == \E i \in 1..Len(printed) : printed[i] = message

\* C16: the query text of execute_comprehensive_query, passed through
\* execute_query_with_mcp to use_mcp_tool, is classified by the rule with all
\* luxury conditions, so the script gets the one "123 Waterfront Ave" record
\* and prints the results table, not "No results found matching your
\* criteria."
C16_ScriptFindsProperty ==
    LuxuryShown =>
        /\ Site = RuleSite(2)
        /\ IsWaterfrontRecord(heap[ret].val)
        /\ Printed("table")
        /\ ~Printed("No results found matching your criteria.")

\* C16, the state that refutes it: the query holds every keyword of the rule
\* but begins with a newline and four spaces, the call returned the envelope
\* of line 114 with no data, and the script printed "No results found
\* matching your criteria." and ended with exit code 0.
C16_Witness ==
    /\ LuxuryShown
    /\ pc = "exit"
    /\ exit_code = 0
    /\ IsLuxuryAll(CallQuery)
    /\ ~startswith(CallQuery, KW_select)
    /\ startswith(CallQuery, <<"\n", " ", " ", " ", " ">> \o KW_select)
    /\ Site = "L114"
    /\ "data" \notin DOMAIN heap[ret].val
    /\ Printed("No results found matching your criteria.")
    /\ ~Printed("table")

\* the envelope of the return for other queries (line 114)
OtherQueryResult ==
    [status |-> "success", message |-> "Query executed successfully"]

RECURSIVE FirstMatch(_, _)
FirstMatch(order, query) ==
    IF order = <<>> THEN "L107"
    ELSE IF RuleHolds(Head(order), query) THEN RuleSite(Head(order))
    ELSE FirstMatch(Tail(order), query)

\* the envelope the latest call would get from a chain in that order
ResultInOrder(order) ==
    IF IsSqlCall /\ startswith(CallQuery, KW_select)
    THEN Literal(FirstMatch(order, CallQuery), call.server, call.tool)
    ELSE snap

\* C18: the two luxury rules return equal envelopes, so exchanging them
\* changes the result of no query; the order a caller can observe is that of
\* the list rule and of the family-friendly rule relative to them: on a
\* SELECT text on which the list rule and a luxury rule hold, testing the
\* luxury rules first changes the result, and so does testing the
\* family-friendly rule first on a text on which it holds with a luxury rule
\* and without the list rule.
C18_LuxuryRulesExchangeable ==
    call # NoCall =>
        /\ ResultInOrder(<<1, 2, 3, 4>>) = snap
        /\ ResultInOrder(<<1, 3, 2, 4>>) = snap
        /\ (IsSqlCall /\ Site = "L71") => snap = Return_L53
        /\ (IsSqlCall /\ startswith(CallQuery, KW_select)) =>
              /\ (1 \in Holding /\ Holding \cap {2, 3} # {}) =>
                     ResultInOrder(<<2, 3, 1, 4>>) # snap
              /\ (1 \notin Holding /\ 4 \in Holding /\ Holding \cap {2, 3} # {}) =>
                     ResultInOrder(<<1, 4, 2, 3>>) # snap

\* C18, witness: on a SELECT text on which both luxury rules hold, and no
\* other rule, the five-keyword rule answered, the exchanged chain answers
\* from the other luxury rule, and the envelope is the same.
C18_Witness ==
    /\ IsSqlCall
    /\ startswith(CallQuery, KW_select)
    /\ Holding = {2, 3}
    /\ Site = "L53"
    /\ FirstMatch(<<1, 3, 2, 4>>, CallQuery) = "L71"
    /\ ResultInOrder(<<1, 3, 2, 4>>) = snap
    /\ IsWaterfrontRecord(snap)

\* run_all_demos is running or was the command that ended the batch run
InAll ==
    \/ pc \in {"all_setup", "all_vector", "all_mcp", "all_done"}
    \/ pc = "exit" /\ argv.script = "run_demo.py" /\ argv.batch /\ argv.component = "all"

\* the names of the steps of the current command, in order
StepNames == [i \in 1..Len(steps) |-> steps[i].step]

\* the steps of run_all_demos when check_mcp_server returned `available`
AllOrder(available) ==
    <<"check_mcp_server", "setup_database.py", "bedrock_vector_demo.py">>
        \o (IF available THEN <<"setup_database_mcp.py">> ELSE <<>>)

\* one sequence is the beginning of another
IsPrefix(a, b) == Len(a) <= Len(b) /\ \A i \in 1..Len(a) : a[i] = b[i]

\* C19: run_all_demos runs check_mcp_server, setup_database.py,
\* bedrock_vector_demo.py and setup_database_mcp.py in that order; a step
\* that fails never keeps the later ones from running, and
\* setup_database_mcp.py is launched if and only if check_mcp_server
\* returned True, before the first script started.
C19_AllStepsInOrder ==
    InAll =>
        /\ Len(steps) >= 1
        /\ steps[1].step = "check_mcp_server"
        /\ mcp_available = ~steps[1].failed
        /\ IsPrefix(StepNames, AllOrder(mcp_available))
        /\ pc = "all_setup" => Len(steps) = 1
        /\ pc = "all_vector" => Len(steps) = 2
        /\ pc = "all_mcp" => Len(steps) = 3
        /\ pc \in {"all_done", "exit"} => StepNames = AllOrder(mcp_available)

\* C19, witness: setup_database.py exited with 2, the launch of
\* bedrock_vector_demo.py raised, and setup_database_mcp.py was launched all
\* the same, after the check had returned True.
C19_Witness ==
    /\ pc = "all_done"
    /\ mcp_available
    /\ Len(steps) = 4
    /\ steps[2].outcome = [kind |-> "exit", code |-> 2]
    /\ steps[3].outcome.kind = "raise"
    /\ steps[4].step = "setup_database_mcp.py"

\* run_batch_mode has returned for component setup, vector or mcp
BatchOneExited ==
    /\ pc = "exit"
    /\ argv.script = "run_demo.py"
    /\ argv.batch
    /\ argv.component \in {"setup", "vector", "mcp"}

\* the script of a component
ComponentScript(component) ==
    CASE component = "setup" -> "setup_database.py"
      [] component = "vector" -> "bedrock_vector_demo.py"
      [] component = "mcp" -> "setup_database_mcp.py"

\* the entries of the log that are launches of a script
Launches == {i \in 1..Len(steps) : steps[i].step # "check_mcp_server"}

\* C20: in batch mode with component setup, vector or mcp (when the MCP
\* check passes), run_batch_mode returns the exit code of the child: 0
\* exactly when the child exited 0, the child's non-zero code when it
\* failed, and 1 when the launch raised; with component mcp and a failed
\* check it returns 1 and launches nothing.
C20_BatchReturnsChildCode ==
    BatchOneExited =>
        IF argv.component = "mcp" /\ ~installed
        THEN exit_code = 1 /\ Launches = {}
        ELSE /\ Cardinality(Launches) = 1
             /\ \A i \in Launches :
                    /\ steps[i].step = ComponentScript(argv.component)
                    /\ steps[i].outcome.kind = "exit" => exit_code = steps[i].outcome.code
                    /\ steps[i].outcome.kind = "raise" => exit_code = 1
                    /\ exit_code = 0 <=>
                           (steps[i].outcome.kind = "exit" /\ steps[i].outcome.code = 0)

\* C20, witness: component mcp, the check passed, setup_database_mcp.py
\* exited with 2, and run_batch_mode returned 2.
C20_Witness ==
    /\ BatchOneExited
    /\ argv.component = "mcp"
    /\ installed
    /\ Len(steps) = 2
    /\ steps[2].outcome = [kind |-> "exit", code |-> 2]
    /\ exit_code = 2


\* the query the menu binds to each choice: the entries 1 to 5 of display_menu
BoundQuery ==
    ("1" :> "run_investment_query") @@ ("2" :> "run_amenities_query")
        @@ ("3" :> "run_description_query") @@ ("4" :> "run_location_query")
        @@ ("5" :> "run_vector_query")

\* the queries run on the i-th menu input
QueriesOn(i) == {k \in 1..Len(queries) : queries[k].choice = i}

\* the Enter prompts answered after the i-th menu input
WaitsAfter(i) == {k \in 1..Len(waits) : waits[k].after = i}

\* the i-th menu input has been dealt with: the loop is past its branch
DealtWith(i) == i < Len(choices) \/ loop \in {"enter", "menu", "returned"}

\* C21: MCPDemo.run ends only on choice '6': the loop ends at the first '6'
\* among the menu inputs and not before; every other input runs at most the
\* one query bound to it, then waits for Enter and shows the menu again; an
\* invalid input runs no query.
C21_EndsOnlyOnSix ==
    loop # "none" =>
        LET n == Len(choices) IN
        \* the loop has ended exactly when a '6' was read and its branch taken,
        \* and nothing is read after a '6'
        /\ loop = "returned" <=> (n >= 1 /\ choices[n] = "6" /\ loop # "chosen")
        /\ \A i \in 1..n : choices[i] = "6" => i = n
        /\ \A i \in 1..n :
            \* only the query bound to the choice runs, once, and none on
            \* any other text
            /\ \A k \in QueriesOn(i) :
                    /\ choices[i] \in DOMAIN BoundQuery
                    /\ queries[k].method = BoundQuery[choices[i]]
            /\ Cardinality(QueriesOn(i)) <= 1
            /\ (DealtWith(i) /\ choices[i] \in DOMAIN BoundQuery)
                    => Cardinality(QueriesOn(i)) = 1
            \* after every input but '6': one Enter prompt, then the menu
            /\ Cardinality(WaitsAfter(i)) =
                    IF choices[i] # "6" /\ (i < n \/ loop = "menu") THEN 1 ELSE 0
        /\ Len(waits) = Cardinality(UNION {WaitsAfter(i) : i \in 1..n})
        /\ (n >= 1 /\ WaitsAfter(n) # {}) => loop = "menu"

\* C21, witness: the inputs '3', ' 6' and '6': the description query ran on
\* the first, nothing ran on the second, a "6" typed at the Enter prompt was
\* not taken for a choice, and the loop ended on the third.
C21_Witness ==
    /\ loop = "returned"
    /\ choices = <<"3", " 6", "6">>
    /\ Len(queries) = 1
    /\ queries[1].method = "run_description_query"
    /\ Len(waits) = 2
    /\ waits[1].text = "6"

====
